---------------------------- MODULE Spec2Model ----------------------------
(***************************************************************************)
(* Model of the authenticated, paginated HTTP client of the IBM Security   *)
(* Verify extraction scripts: the OAuth2 token lifecycle of                *)
(* IBMVerifyClient, the request dispatcher, the pagination traversals and  *)
(* the parallel application-details fan-out.                               *)
(*                                                                         *)
(* Exceptions are modelled by the name of the class the caller can catch:  *)
(* "RequestException" (requests.exceptions.RequestException and its        *)
(* subclasses, HTTPError included), "KeyError", "PermissionError", and     *)
(* "None" for a normal return.                                             *)
(***************************************************************************)
EXTENDS Integers, Sequences, FiniteSets, TLC

VARIABLES
    \* IBMVerifyClient fields
    access_token,       \* NoToken, or a number standing for the token string held
    token_expires_at,   \* stored expiry (already reduced by the safety buffer)
    \* environment
    now,                \* time.time(), in seconds since the client was built
    ticks,              \* how often the clock has advanced
    token_posts,        \* POSTs sent to the token endpoint
    \* ghost: the last two sequential calls made on one client, and their number
    calls,
    ncalls,
    \* one pagination traversal (the generator and the main that drains it)
    strategy,           \* "applications", "groups", "dynamic_groups"; "none" outside
    mode,               \* "honest": the server pages a fixed collection; "arbitrary"
    total,              \* items the server holds / reports
    limit,              \* config.DEFAULT_PAGE_SIZE (limit, or SCIM count)
    cursor,             \* offset (0-based) or start_index (1-based)
    total_fetched,      \* records yielded so far
    pc,                 \* "start", "fetch", "yield", "done"
    page,               \* items of the current page not yet yielded
    resp,               \* what the loop reads from the current page after its items
    yielded,            \* ghost: items handed to the consumer, in order
    received,           \* ghost: items the server has returned, in order
    requested,          \* ghost: cursor of every page GET issued
    reported,           \* ghost: total read from every page GET (NoBody: none read)
    failed,             \* ghost: "None", or how a page fetch failed: "auth" (token
                        \* step), "401", "403", "body", or "get" (any other way)
    raised,             \* exception the generator raised to its caller
    exit,               \* "running", then how main ended
    \* the application-details fan-out (fetch_application_details.main)
    app_ids,            \* the identifiers read from applications.jsonl: 1..app_ids
    main_pc,            \* "prewarm", "fanout", "done"; "none" outside
    task,               \* per identifier: where its fetch_application_details is
    consumed,           \* identifiers in the order as_completed handed them over
    written,            \* identifiers whose line was written to the output file
    successful,         \* the counter `successful`
    refreshed,          \* ghost: per token value, the token requests sent because it was stale
    grant_failed,       \* ghost: a token request of the fan-out was rejected
    \* one request through the client's session (the retrying HTTPAdapter)
    sess,               \* method, retry budget left, responses received, outcome
    \* the thread pool of the fan-out, its tasks taken as single steps
    pool,               \* futures, their phases, and what as_completed holds
    \* the Config instance the script was started with
    config              \* the three credentials: "" when the variable is not set

clientVars == <<access_token, token_expires_at>>
envVars    == <<now, ticks, token_posts>>
logVars    == <<calls, ncalls>>
pageVars   == <<strategy, mode, total, limit, cursor, total_fetched, pc, page, resp,
                yielded, received, requested, reported, failed, raised, exit>>
travVars   == <<strategy, mode, total, limit, cursor, total_fetched, pc, page, resp,
                yielded, received, requested, reported, failed>>
detailVars == <<app_ids, main_pc, task, consumed, written, successful, refreshed,
                grant_failed>>
vars       == <<access_token, token_expires_at, now, ticks, token_posts, calls, ncalls,
                strategy, mode, total, limit, cursor, total_fetched, pc, page, resp,
                yielded, received, requested, reported, failed, raised, exit,
                app_ids, main_pc, task, consumed, written, successful, refreshed,
                grant_failed, sess, pool, config>>
auxVars    == <<sess, pool, config>>

-----------------------------------------------------------------------------
(* Program constants *)

NoToken == 0                \* self.access_token = None
SAFETY_BUFFER == 60         \* "- 60" in _get_access_token
DEFAULT_EXPIRES_IN == 3600  \* token_data.get('expires_in', 3600)
MAX_RETRIES == 3            \* os.getenv('MAX_RETRIES', '3')

(* Bounds of the model *)

MaxTicks == 2               \* clock advances per behaviour
MaxCalls == 3               \* sequential calls per behaviour

\* Clock advances: one second, or a whole default token lifetime less the buffer.
TickSteps == {1, DEFAULT_EXPIRES_IN - SAFETY_BUFFER}

\* expires_in values the token endpoint returns (around the safety buffer).
ExpiresInValues == {60, 61, 62}

\* A response of the token endpoint: status, whether the body carries
\* access_token, and expires_in (has_expires_in = FALSE: the field is absent).
GrantResponses ==
    [status : {200}, has_access_token : {TRUE},
     has_expires_in : {TRUE}, expires_in : ExpiresInValues]
    \cup
    [status : {200}, has_access_token : {TRUE, FALSE},
     has_expires_in : {FALSE}, expires_in : {0}]
    \cup
    [status : {401, 500}, has_access_token : {FALSE},
     has_expires_in : {FALSE}, expires_in : {0}]

\* response.raise_for_status(): 4xx and 5xx raise HTTPError.
StatusOk(status) == status < 400

-----------------------------------------------------------------------------
(* Token manager: IBMVerifyClient._get_access_token *)

\* Mutant: the expiry is not compared, any held token counts as fresh.
TokenIsFresh_NoExpiry(tok, exp, t) == tok # NoToken

\* "if self.access_token and time.time() < self.token_expires_at"
TokenIsFresh(tok, exp, t) == tok # NoToken /\ t < exp

\* Mutant: no default stands in for an absent expires_in.
ExpiresIn_Raw(g) == g.expires_in

\* token_data.get('expires_in', 3600)
ExpiresIn(g) == IF g.has_expires_in THEN g.expires_in ELSE DEFAULT_EXPIRES_IN

\* The exception the grant step raises: raise_for_status() raises HTTPError,
\* which the except clause logs and re-raises; token_data['access_token'] on
\* a body without the key raises KeyError, which no except clause matches.
GrantError(g) ==
    IF ~StatusOk(g.status) THEN "RequestException"
    ELSE IF ~g.has_access_token THEN "KeyError"
    ELSE "None"

\* Mutant: a failed grant drops the token held.
GetAccessToken_ForgetOnFailure(tok, exp, t, g, serial) ==
    IF TokenIsFresh(tok, exp, t)
    THEN [access_token |-> tok, token_expires_at |-> exp,
          posts |-> 0, raised |-> "None", ret |-> tok]
    ELSE IF GrantError(g) # "None"
    THEN [access_token |-> NoToken, token_expires_at |-> 0,
          posts |-> 1, raised |-> GrantError(g), ret |-> NoToken]
    ELSE [access_token |-> serial + 1,
          token_expires_at |-> t + ExpiresIn(g) - SAFETY_BUFFER,
          posts |-> 1, raised |-> "None", ret |-> serial + 1]

\* One call of _get_access_token at time t on a client holding (tok, exp),
\* when the token endpoint would answer g and `serial` grants were requested
\* before.  The result carries the client's fields after the call, the number
\* of token requests sent, the exception raised and the token returned.
GetAccessToken(tok, exp, t, g, serial) ==
    IF TokenIsFresh(tok, exp, t)
    THEN [access_token |-> tok, token_expires_at |-> exp,
          posts |-> 0, raised |-> "None", ret |-> tok]
    ELSE IF GrantError(g) # "None"
    THEN [access_token |-> tok, token_expires_at |-> exp,
          posts |-> 1, raised |-> GrantError(g), ret |-> NoToken]
    ELSE [access_token |-> serial + 1,
          token_expires_at |-> t + ExpiresIn(g) - SAFETY_BUFFER,
          posts |-> 1, raised |-> "None", ret |-> serial + 1]

\* The specification's notion of a stale token: absent, or the stored expiry
\* (true expiry less the buffer) reached.
Stale(tok, exp, t) == tok = NoToken \/ t >= exp

-----------------------------------------------------------------------------
(* Sequential use of one client: SpecToken *)

GetOutcomes == {"ok", "http_error"}

\* _make_request: the token step, then one GET through the session.
\* r is what the GET would end in.
MakeRequest(tok, exp, t, g, serial, r) ==
    LET a == GetAccessToken(tok, exp, t, g, serial) IN
    IF a.raised # "None"
    THEN [auth |-> a, gets |-> 0, raised |-> a.raised]
    ELSE [auth |-> a, gets |-> 1,
          raised |-> IF r = "ok" THEN "None" ELSE "RequestException"]

InitClient ==
    /\ access_token = NoToken
    /\ token_expires_at = 0
    /\ now = 0
    /\ ticks = 0
    /\ token_posts = 0

\* No traversal is running.
NoTraversal ==
    /\ strategy = "none" /\ mode = "honest" /\ total = 0 /\ limit = 1
    /\ cursor = 0 /\ total_fetched = 0 /\ pc = "done"
    /\ page = <<>> /\ resp = [is_list |-> FALSE, total |-> 0]
    /\ yielded = <<>> /\ received = <<>> /\ requested = <<>> /\ reported = <<>>
    /\ failed = "None" /\ raised = "None" /\ exit = "running"

NoCalls ==
    /\ calls = <<>>
    /\ ncalls = 0

\* No fan-out is running.
NoFanOut ==
    /\ app_ids = 0 /\ main_pc = "none" /\ task = <<>>
    /\ consumed = <<>> /\ written = <<>> /\ successful = 0
    /\ refreshed = <<>> /\ grant_failed = FALSE

\* No request is under way in the session.
NoSession ==
    sess = [method |-> "none", pc |-> "idle", budget |-> 0, total |-> 0,
            seen |-> <<>>, raised |-> "None"]

\* No pool is running.
NoPool ==
    pool = [n |-> 0, pc |-> "none", phase |-> <<>>, future_to_app_id |-> <<>>,
            early |-> {}, order |-> <<>>, last |-> 0]

\* The environment sets all three credentials.
ValidConfig ==
    config = [TENANT_URL |-> "set", CLIENT_ID |-> "set", CLIENT_SECRET |-> "set"]

\* Nothing but the modelled script runs.
NoAux == NoSession /\ NoPool /\ ValidConfig

InitToken ==
    /\ InitClient
    /\ NoCalls
    /\ NoTraversal
    /\ NoFanOut
    /\ NoAux

\* The log keeps the call just made and the one before it.
Logged(rec) == IF Len(calls) < 2 THEN Append(calls, rec) ELSE <<calls[2], rec>>

\* What the log keeps as the grant of a call that stored none.
NoGrant == [status |-> 0, has_access_token |-> FALSE,
            has_expires_in |-> FALSE, expires_in |-> 0]

\* What the log keeps of a call: whether the held token was stale when the
\* call began, the requests it sent, how it ended, the time of the call, the
\* grant it stored (NoGrant: none) and the expiry held when it returned.
CallRecord(op, a, g, gets, exc) ==
    [op |-> op,
     stale |-> Stale(access_token, token_expires_at, now),
     posts |-> a.posts, gets |-> gets, raised |-> exc, ret |-> a.ret,
     fresh_after |-> ~Stale(a.access_token, a.token_expires_at, now),
     at |-> now,
     grant |-> IF a.posts = 1 /\ a.ret # NoToken THEN g ELSE NoGrant,
     expires_at |-> a.token_expires_at]

\* The clock advances between two calls.
Tick ==
    /\ ticks < MaxTicks
    /\ \E d \in TickSteps : now' = now + d
    /\ ticks' = ticks + 1
    /\ UNCHANGED <<access_token, token_expires_at, token_posts, calls, ncalls>>
    /\ UNCHANGED <<pageVars, detailVars>>
    /\ UNCHANGED auxVars

\* client._get_access_token()
CallGetAccessToken ==
    /\ ncalls < MaxCalls
    /\ ncalls' = ncalls + 1
    /\ \E g \in GrantResponses :
         LET a == GetAccessToken(access_token, token_expires_at, now, g, token_posts) IN
         /\ access_token' = a.access_token
         /\ token_expires_at' = a.token_expires_at
         /\ token_posts' = token_posts + a.posts
         /\ calls' = Logged(CallRecord("token", a, g, 0, a.raised))
    /\ UNCHANGED <<now, ticks>>
    /\ UNCHANGED <<pageVars, detailVars>>
    /\ UNCHANGED auxVars

\* client._make_request(url)
CallMakeRequest ==
    /\ ncalls < MaxCalls
    /\ ncalls' = ncalls + 1
    /\ \E g \in GrantResponses, r \in GetOutcomes :
         LET m == MakeRequest(access_token, token_expires_at, now, g, token_posts, r) IN
         /\ access_token' = m.auth.access_token
         /\ token_expires_at' = m.auth.token_expires_at
         /\ token_posts' = token_posts + m.auth.posts
         /\ calls' = Logged(CallRecord("request", m.auth, g, m.gets, m.raised))
    /\ UNCHANGED <<now, ticks>>
    /\ UNCHANGED <<pageVars, detailVars>>
    /\ UNCHANGED auxVars

NextToken == Tick \/ CallGetAccessToken \/ CallMakeRequest

SpecToken == InitToken /\ [][NextToken]_vars


\* A call whose token request was rejected.
GrantFailed(c) == c.posts = 1 /\ c.ret = NoToken

\* C1: when every token grant succeeds, a call sends a token request exactly
\* when the held token is stale at the call, and then exactly one; a call
\* made while the token obtained by the previous call is not stale sends none
\* and returns that same token, so the two calls send one request in total.
C1_TokenReuse ==
    (\A i \in DOMAIN calls : ~GrantFailed(calls[i])) =>
        /\ \A i \in DOMAIN calls :
             calls[i].posts = IF calls[i].stale THEN 1 ELSE 0
        /\ (Len(calls) = 2 /\ calls[1].stale /\ ~calls[2].stale) =>
             /\ calls[1].posts + calls[2].posts = 1
             /\ calls[2].ret = calls[1].ret

\* C1 witness: a call reused the cached token, the clock then passed the
\* expiry, and the next call sent exactly one token request for a new token.
C1_Witness ==
    /\ ncalls = 3 /\ ticks > 0
    /\ ~calls[1].stale /\ calls[1].posts = 0 /\ calls[1].ret # NoToken
    /\ calls[2].stale /\ calls[2].posts = 1
    /\ calls[2].ret # NoToken /\ calls[2].ret # calls[1].ret

\* C10: a rejected grant (non-2xx status) and a grant whose 2xx body lacks
\* access_token raise one and the same error, which reaches the caller of
\* _make_request, and no GET is issued in that call.
C10_SameAuthenticationError ==
    /\ \A i \in DOMAIN calls :
         GrantFailed(calls[i]) => calls[i].raised # "None" /\ calls[i].gets = 0
    /\ \A i, j \in DOMAIN calls :
         GrantFailed(calls[i]) /\ GrantFailed(calls[j])
            => calls[i].raised = calls[j].raised

\* A call that stored a new token.
Refreshed(c) == c.posts = 1 /\ c.ret # NoToken

\* C11: a call sends a token request exactly when, as it begins, no token is
\* held or the clock has reached the stored expiry, and then exactly one;
\* after a successful grant the stored expiry is the time of the call plus
\* the grant's expires_in, or 3600 when the grant carries none, minus 60.
C11_RefreshIffStale ==
    \A i \in DOMAIN calls :
        LET c == calls[i] IN
        /\ c.posts \in {0, 1}
        /\ c.posts = 1 <=> c.stale
        /\ Refreshed(c) =>
             c.expires_at = c.at + (IF c.grant.has_expires_in
                                    THEN c.grant.expires_in ELSE 3600) - 60

\* C11 witness: one call refreshed on a grant without expires_in and another
\* on a grant carrying it, the second because the clock had reached the
\* stored expiry of a token still held.
C11_Witness ==
    /\ Len(calls) = 2
    /\ Refreshed(calls[1]) /\ ~calls[1].grant.has_expires_in
    /\ calls[1].expires_at = 3540
    /\ calls[2].at >= calls[1].expires_at
    /\ Refreshed(calls[2]) /\ calls[2].grant.has_expires_in

\* C12: after every call that stored a new token the stored expiry is later
\* than the time the token was requested, so the token is not stale when the
\* call returns.
C12_MonotonicExpiry ==
    \A i \in DOMAIN calls :
        Refreshed(calls[i]) =>
            /\ calls[i].expires_at > calls[i].at
            /\ calls[i].fresh_after

-----------------------------------------------------------------------------
(* Pagination traversals: SpecPages                                        *)
(* fetch_applications (offset/limit), fetch_groups (SCIM startIndex/count) *)
(* and fetch_dynamic_groups (offset/limit, direct requests.get), each      *)
(* drained by its script's main.                                           *)

DEFAULT_PAGE_SIZE == 100    \* config.DEFAULT_PAGE_SIZE
MaxTotal == 4               \* items the server holds, for the small page sizes
MaxLimit == 2               \* small page sizes
NoBody == -1                \* no total was read from a page (it failed)

Min(a, b) == IF a < b THEN a ELSE b
Max(a, b) == IF a > b THEN a ELSE b
Ceil(a, b) == (a + b - 1) \div b

Strategies == {"applications", "groups", "dynamic_groups"}

\* <<total, limit>> of a traversal: all small ones, and those of the examples.
Cursors ==
    { <<t, l>> : t \in 0..MaxTotal, l \in 1..MaxLimit }
    \cup { <<250, DEFAULT_PAGE_SIZE>>, <<5, DEFAULT_PAGE_SIZE>> }

\* Token responses during a traversal: a token that is stale at once, one
\* with the default lifetime, a body without access_token, a rejection.
PageGrantResponses ==
    { g \in GrantResponses :
        /\ g.has_expires_in => g.expires_in = SAFETY_BUFFER
        /\ g.status \in {200, 401} }

\* The token endpoint answers only when asked.
GrantsAsked ==
    IF TokenIsFresh(access_token, token_expires_at, now)
    THEN { CHOOSE g \in PageGrantResponses : TRUE }
    ELSE PageGrantResponses

\* Number of items in the page at 0-based position pos: the honest server
\* returns the next slice of its collection, an arbitrary one any of an empty
\* page, a single item, a full page.
PageSizes(pos) ==
    IF mode = "honest" THEN { Min(limit, Max(0, total - pos)) } ELSE {0, 1, limit}

\* The items of a page of n items at 0-based position pos, numbered by their
\* position in the collection.
PageItems(pos, n) == [i \in 1..n |-> pos + i]

\* The total a page reports: the honest server always the collection's size;
\* an arbitrary one may leave the field out (the code then reads 0) or, for
\* SCIM, report any number.
ReportedTotals ==
    IF mode = "honest" THEN {total}
    ELSE IF strategy = "groups" THEN (0..MaxTotal) \cup {total}
    ELSE {0, total}

\* A bare JSON array instead of an object (groups and dynamic groups test it).
BodyShapes == IF mode = "honest" \/ strategy = "applications" THEN {FALSE} ELSE {FALSE, TRUE}

InitPages ==
    /\ InitClient
    /\ NoCalls
    /\ NoFanOut
    /\ strategy \in Strategies
    /\ mode \in {"honest", "arbitrary"}
    /\ \E c \in Cursors : total = c[1] /\ limit = c[2]
    /\ cursor = IF strategy = "groups" THEN 1 ELSE 0
    /\ total_fetched = 0
    /\ pc = IF strategy = "dynamic_groups" THEN "start" ELSE "fetch"
    /\ page = <<>> /\ resp = [is_list |-> FALSE, total |-> 0]
    /\ yielded = <<>> /\ received = <<>> /\ requested = <<>> /\ reported = <<>>
    /\ failed = "None" /\ raised = "None" /\ exit = "running"
    /\ NoAux

\* How a script's main ends when its generator ended with exception exc:
\* fetch_applications.main and fetch_groups.main log and re-raise whatever
\* reaches them, so the interpreter ends with an uncaught exception.
MainExit(exc) == IF exc = "None" THEN "0" ELSE "uncaught"

\* fetch_dynamic_groups.main: returns 1 on PermissionError, 0 after saving;
\* any other exception leaves main uncaught.
DynMainExit(exc) ==
    IF exc = "None" THEN "0"
    ELSE IF exc = "PermissionError" THEN "1"
    ELSE "uncaught"

NonZeroExit == exit \in {"1", "uncaught"}

\* Mutant: the except clause of fetch_applications re-raises.
AppsOnError_Raise(exc) == "raise"

\* fetch_applications: "except Exception as e: ... break"
AppsOnError(exc) == "break"

\* fetch_groups: "except Exception as e: ... break"
GroupsOnError(exc) == "break"

\* fetch_dynamic_groups: "except PermissionError: raise" and
\* "except requests.exceptions.RequestException as e: ... raise"; any other
\* exception is not caught at all.
DynOnError(exc) == "raise"

\* Mutant: the comparison is strict, a last full page is followed by another request.
AppsStop_Strict(offset, lim, tot) == offset + lim > tot

\* fetch_applications: "if offset + limit >= total: break"
AppsStop(offset, lim, tot) == offset + lim >= tot

\* Mutant: the cursor advances by one item more than the page size.
NextOffset_Skip(offset, lim) == offset + lim + 1

\* Mutant: the offset is not advanced.
NextOffset_Stay(offset, lim) == offset

\* "offset += limit"
NextOffset(offset, lim) == offset + lim

\* Mutant: the last index of the page is compared strictly.
GroupsStop_Strict(start_index, count, total_results) ==
    total_results = 0 \/ start_index + count - 1 > total_results

\* fetch_groups: "if total_results == 0 or start_index + count - 1 >= total_results: break"
GroupsStop(start_index, count, total_results) ==
    total_results = 0 \/ start_index + count - 1 >= total_results

\* Mutant: the cursor skips an item between two pages.
NextStartIndex_Skip(start_index, count) == start_index + count + 1

\* "start_index += count"
NextStartIndex(start_index, count) == start_index + count

\* fetch_dynamic_groups: "if total == 0 or offset + limit >= total: break"
DynStop(offset, lim, tot) == tot = 0 \/ offset + lim >= tot

\* The generator ends: normally (exc = "None") or by raising exc; main, which
\* drains it, then ends too.
Finish(exc, mainExit) ==
    /\ pc' = "done"
    /\ raised' = exc
    /\ exit' = mainExit

\* A page fetch ended in exception exc; onError is what the except clause of
\* the traversal does with it, mainExit how main ends if it is raised.
PageFailed(exc, onError, mainExitRaised) ==
    /\ IF onError = "break"
       THEN Finish("None", "0")
       ELSE Finish(exc, mainExitRaised)
    /\ UNCHANGED <<page, resp, received, cursor, total_fetched>>

\* Mutant: the loop asks for the next page while the items of this one wait.
PageArrived_Prefetch(pos, n, tot, isList, mainExit) ==
    /\ received' = received \o PageItems(pos, n)
    /\ failed' = failed
    /\ IF n = 0
       THEN /\ Finish("None", mainExit)
            /\ UNCHANGED <<page, resp, cursor>>
       ELSE /\ page' = page \o PageItems(pos, n)
            /\ resp' = [is_list |-> isList, total |-> tot]
            /\ IF pos + n >= tot \/ isList
               THEN pc' = "yield" /\ UNCHANGED cursor
               ELSE pc' = "fetch" /\ cursor' = cursor + n
            /\ UNCHANGED <<raised, exit>>
    /\ UNCHANGED total_fetched

\* A page arrived: n items at 0-based position pos, total tot, array or object.
PageArrived(pos, n, tot, isList, mainExit) ==
    /\ received' = received \o PageItems(pos, n)
    /\ failed' = failed
    /\ IF n = 0
       THEN /\ Finish("None", mainExit)              \* "if not applications: break"
            /\ UNCHANGED <<page, resp>>
       ELSE /\ page' = PageItems(pos, n)
            /\ resp' = [is_list |-> isList, total |-> tot]
            /\ pc' = "yield"
            /\ UNCHANGED <<raised, exit>>
    /\ UNCHANGED <<cursor, total_fetched>>

\* One item of the page is yielded; after the last one the loop decides with
\* `stop` whether to end, and otherwise moves the cursor to `next`.
YieldThen(stop, next, mainExit) ==
    /\ pc = "yield"
    /\ yielded' = Append(yielded, Head(page))
    /\ total_fetched' = total_fetched + 1
    /\ page' = Tail(page)
    /\ IF Tail(page) # <<>>
       THEN UNCHANGED <<pc, cursor, raised, exit>>
       ELSE IF stop
            THEN Finish("None", mainExit) /\ UNCHANGED cursor
            ELSE pc' = "fetch" /\ cursor' = next /\ UNCHANGED <<raised, exit>>
    /\ UNCHANGED <<clientVars, envVars, logVars, detailVars>>
    /\ UNCHANGED <<strategy, mode, total, limit, resp, received, requested, reported, failed>>

\* The token step and GET of one _make_request / _make_scim_request for a
\* page; the page's cursor is logged when the GET is issued.
PageRequest(m) ==
    /\ access_token' = m.auth.access_token
    /\ token_expires_at' = m.auth.token_expires_at
    /\ token_posts' = token_posts + m.auth.posts
    /\ requested' = IF m.gets = 1 THEN Append(requested, cursor) ELSE requested
    /\ UNCHANGED <<now, ticks, logVars, detailVars, strategy, mode, total, limit, yielded>>

\* fetch_applications: one iteration of "while True" up to the first yield.
AppsFetchPage ==
    /\ strategy = "applications" /\ pc = "fetch"
    /\ \E g \in GrantsAsked, r \in GetOutcomes,
          n \in PageSizes(cursor), tot \in ReportedTotals :
         LET m == MakeRequest(access_token, token_expires_at, now, g, token_posts, r) IN
         /\ PageRequest(m)
         /\ IF m.raised # "None"
            THEN /\ failed' = IF m.gets = 0 THEN "auth" ELSE "get"
                 /\ reported' = IF m.gets = 1 THEN Append(reported, NoBody) ELSE reported
                 /\ PageFailed(m.raised, AppsOnError(m.raised), MainExit(m.raised))
            ELSE /\ reported' = Append(reported, tot)
                 /\ PageArrived(cursor, n, tot, FALSE, MainExit("None"))
    /\ UNCHANGED auxVars

\* fetch_applications: the rest of an iteration, item by item.
AppsYield ==
    /\ strategy = "applications"
    /\ YieldThen(AppsStop(cursor, limit, resp.total), NextOffset(cursor, limit),
                 MainExit("None"))
    /\ UNCHANGED auxVars

\* fetch_groups: one iteration of "while True" up to the first yield.
GroupsFetchPage ==
    /\ strategy = "groups" /\ pc = "fetch"
    /\ \E g \in GrantsAsked, r \in GetOutcomes,
          n \in PageSizes(cursor - 1), tot \in ReportedTotals, isList \in BodyShapes :
         LET m == MakeRequest(access_token, token_expires_at, now, g, token_posts, r) IN
         /\ PageRequest(m)
         /\ IF m.raised # "None"
            THEN /\ failed' = IF m.gets = 0 THEN "auth" ELSE "get"
                 /\ reported' = IF m.gets = 1 THEN Append(reported, NoBody) ELSE reported
                 /\ PageFailed(m.raised, GroupsOnError(m.raised), MainExit(m.raised))
            ELSE /\ reported' = Append(reported, IF isList THEN NoBody ELSE tot)
                 /\ PageArrived(cursor - 1, n, tot, isList, MainExit("None"))
    /\ UNCHANGED auxVars

\* fetch_groups: the rest of an iteration, item by item.
GroupsYield ==
    /\ strategy = "groups"
    /\ YieldThen(resp.is_list \/ GroupsStop(cursor, limit, resp.total),
                 NextStartIndex(cursor, limit), MainExit("None"))
    /\ UNCHANGED auxVars

\* Statuses the dynamic-groups endpoint answers with.
DynStatuses == {200, 401, 403, 500}

\* Mutant: a 401 is left to raise_for_status like any other error status.
DynStatusError_Generic(status) ==
    IF StatusOk(status) THEN "None" ELSE "RequestException"

\* fetch_dynamic_groups: "if response.status_code == 401: raise PermissionError"
\* and then "response.raise_for_status()".
DynStatusError(status) ==
    IF status = 401 THEN "PermissionError"
    ELSE IF ~StatusOk(status) THEN "RequestException"
    ELSE "None"

\* fetch_dynamic_groups: the headers are built once, before the loop, with
\* client._get_access_token(); an exception there is outside every try.
DynStart ==
    /\ strategy = "dynamic_groups" /\ pc = "start"
    /\ \E g \in GrantsAsked :
         LET a == GetAccessToken(access_token, token_expires_at, now, g, token_posts) IN
         /\ access_token' = a.access_token
         /\ token_expires_at' = a.token_expires_at
         /\ token_posts' = token_posts + a.posts
         /\ IF a.raised # "None"
            THEN /\ failed' = "auth"
                 /\ Finish(a.raised, DynMainExit(a.raised))
            ELSE /\ failed' = failed
                 /\ pc' = "fetch"
                 /\ UNCHANGED <<raised, exit>>
    /\ UNCHANGED <<now, ticks, logVars, detailVars>>
    /\ UNCHANGED <<strategy, mode, total, limit, cursor, total_fetched, page, resp,
                   yielded, received, requested, reported>>
    /\ UNCHANGED auxVars

\* fetch_dynamic_groups: one iteration of "while True" up to the first yield;
\* the GET goes through requests.get with the headers built at the start.
DynFetchPage ==
    /\ strategy = "dynamic_groups" /\ pc = "fetch"
    /\ requested' = Append(requested, cursor)
    /\ \E status \in DynStatuses,
          n \in PageSizes(cursor), tot \in ReportedTotals, isList \in BodyShapes :
         LET exc == DynStatusError(status) IN
         IF exc # "None"
         THEN /\ failed' = IF status = 401 THEN "401"
                          ELSE IF status = 403 THEN "403" ELSE "get"
              /\ reported' = Append(reported, NoBody)
              /\ PageFailed(exc, DynOnError(exc), DynMainExit(exc))
         ELSE /\ reported' = Append(reported, IF isList THEN NoBody ELSE tot)
              /\ PageArrived(cursor, n, tot, isList, DynMainExit("None"))
    /\ UNCHANGED <<clientVars, envVars, logVars, detailVars>>
    /\ UNCHANGED <<strategy, mode, total, limit, yielded>>
    /\ UNCHANGED auxVars

\* fetch_dynamic_groups: the rest of an iteration, item by item.
DynYield ==
    /\ strategy = "dynamic_groups"
    /\ YieldThen(resp.is_list \/ DynStop(cursor, limit, resp.total),
                 NextOffset(cursor, limit), DynMainExit("None"))
    /\ UNCHANGED auxVars

NextPages ==
    \/ AppsFetchPage \/ AppsYield
    \/ GroupsFetchPage \/ GroupsYield
    \/ DynStart \/ DynFetchPage \/ DynYield

SpecPages == InitPages /\ [][NextPages]_vars

\* The page requests so far went to offsets 0, limit, 2*limit, ...
OffsetsInOrder ==
    /\ \A i \in DOMAIN requested : requested[i] = (i - 1) * limit
    /\ \A i, j \in DOMAIN requested : i < j => requested[i] < requested[j]

\* C2 (as claimed): the applications traversal requests offsets 0, limit,
\* 2*limit, ..., none twice, and at most ceil(total/limit) pages.
C2_AtMostCeilPages ==
    strategy = "applications" =>
        /\ OffsetsInOrder
        /\ Len(requested) <= Ceil(total, limit)

\* C2 (amended): the applications traversal requests offsets 0, limit,
\* 2*limit, ..., none twice, and at most max(1, ceil(total/limit)) pages: the
\* first page is requested whatever the total is.
C2_AtMostCeilPagesOrOne ==
    strategy = "applications" =>
        /\ OffsetsInOrder
        /\ Len(requested) <= Max(1, Ceil(total, limit))

\* C2 witness: a traversal of several pages that used the whole budget.
C2_Witness ==
    /\ strategy = "applications" /\ pc = "done" /\ total > 0
    /\ Len(requested) >= 2 /\ Len(requested) = Ceil(total, limit)

\* C3: against the honest server and without a failed page, the applications
\* traversal requests offsets 0, limit, ..., yields the items in order, each
\* once, and ends having yielded exactly `total` records after
\* max(1, ceil(total/limit)) requests, the last one at an offset with
\* offset + limit >= total (or returning an empty page); total = 250 with
\* limit = 100 gives the requests 0, 100, 200 and 250 records.
C3_HonestTraversal ==
    (strategy = "applications" /\ mode = "honest" /\ failed = "None") =>
        /\ OffsetsInOrder
        /\ \A i \in DOMAIN yielded : yielded[i] = i
        /\ Len(yielded) <= total
        /\ pc = "done" =>
             /\ Len(yielded) = total
             /\ Len(requested) = Max(1, Ceil(total, limit))
             /\ cursor + limit >= total
        /\ (pc = "done" /\ total = 250 /\ limit = 100) =>
             /\ requested = <<0, 100, 200>>
             /\ Len(yielded) = 250

\* C3 witness: the example traversal has ended.
C3_Witness ==
    /\ strategy = "applications" /\ mode = "honest" /\ failed = "None"
    /\ pc = "done" /\ total = 250 /\ limit = 100
    /\ Len(requested) = 3 /\ Len(yielded) = 250

\* C4: the SCIM traversal requests startIndex 1, 1 + count, 1 + 2*count, ...;
\* every page that was followed by another request reported a totalResults
\* that is not 0 and is above startIndex + count - 1; a first page reporting
\* totalResults = 5 with count = 100 is the only page requested.
C4_ScimCursor ==
    strategy = "groups" =>
        /\ \A i \in DOMAIN requested : requested[i] = 1 + (i - 1) * limit
        /\ \A i \in DOMAIN requested :
             i < Len(requested) =>
                /\ reported[i] # 0
                /\ requested[i] + limit - 1 < reported[i]
        /\ (limit = 100 /\ reported # <<>> /\ reported[1] = 5) => Len(requested) = 1

\* C4 witness: a SCIM traversal of several pages ended on a page whose
\* totalResults was reached.
C4_Witness ==
    /\ strategy = "groups" /\ pc = "done" /\ failed = "None"
    /\ Len(requested) >= 2
    /\ reported[Len(reported)] > 0
    /\ requested[Len(requested)] + limit - 1 >= reported[Len(reported)]

\* C6: a 401 on a page of the dynamic-groups endpoint makes the generator
\* raise PermissionError and main return 1; any other failed page raises the
\* generic request error instead.
C6_EntitlementError ==
    strategy = "dynamic_groups" =>
        /\ failed = "401" => (pc = "done" /\ raised = "PermissionError" /\ exit = "1")
        /\ failed \in {"get", "403"} => raised = "RequestException"

\* C6 witness: the 401 came on the second page, after records were yielded.
C6_Witness ==
    /\ strategy = "dynamic_groups" /\ failed = "401"
    /\ Len(requested) = 2 /\ yielded # <<>> /\ NonZeroExit

\* C7 (as claimed): in every pagination strategy a failed page fetch that is
\* not an entitlement error ends the sequence without raising, after the
\* records of the earlier pages have been yielded.
C7_PageFailureNeverRaises ==
    failed \in {"get", "403"} =>
        /\ pc = "done" /\ raised = "None"
        /\ yielded = received

\* C7 (amended): in fetch_applications and fetch_groups a failed page fetch
\* ends the sequence without raising; in fetch_dynamic_groups a failed page
\* fetch that is not a 401 is re-raised to the caller as the request error;
\* in all three the records of the earlier pages have been yielded by then.
C7_PageFailurePerStrategy ==
    /\ (strategy \in {"applications", "groups"} /\ failed = "get") =>
          /\ pc = "done" /\ raised = "None"
          /\ yielded = received
    /\ (strategy = "dynamic_groups" /\ failed \in {"get", "403"}) =>
          /\ pc = "done" /\ raised = "RequestException"
          /\ yielded = received

\* C7 witness: the second page of the applications traversal failed.
C7_Witness ==
    /\ strategy = "applications" /\ failed = "get" /\ pc = "done"
    /\ Len(requested) = 2 /\ yielded # <<>>

\* C8: a rejected token grant during the applications extraction is raised
\* out of the traversal and the process ends with a non-zero exit.
C8_AuthFailureSurfaces ==
    (strategy = "applications" /\ failed = "auth") =>
        /\ raised # "None"
        /\ NonZeroExit

\* C16: in every traversal the cursors of the page requests are strictly
\* increasing, and the records yielded so far are, in the same order, the
\* first ones of the records the server returned, page after page and
\* within a page in the order of the response array; what is left of the
\* current page are the next ones.
C16_CursorAndRecordOrder ==
    /\ \A i, j \in DOMAIN requested : i < j => requested[i] < requested[j]
    /\ Len(yielded) <= Len(received)
    /\ \A k \in DOMAIN yielded : yielded[k] = received[k]
    /\ pc = "yield" => yielded \o page = received

\* C16 witness: a traversal of applications or groups has requested a second
\* page and yielded a record of it after all records of the first.
C16_Witness ==
    /\ strategy \in {"applications", "groups"}
    /\ Len(requested) >= 2
    /\ limit >= 2 /\ Len(yielded) > limit
    /\ yielded = received

\* C17: a 403 of the dynamic-groups endpoint ends the traversal in the
\* same entitlement error as a 401, and main returns 1 after its hint, not
\* in a generic request failure.
C17_ForbiddenIsEntitlementError ==
    (strategy = "dynamic_groups" /\ failed = "403") =>
        (pc = "done" /\ raised = "PermissionError" /\ exit = "1")

-----------------------------------------------------------------------------
(* The application-details fan-out: SpecDetails                             *)
(* fetch_application_details.main pre-warms the token, submits one         *)
(* fetch_application_details(client, app_id) per identifier to a thread    *)
(* pool and consumes the futures as they complete.  The workers share the  *)
(* client; _get_access_token takes no lock, so its steps interleave.       *)

max_workers == 10           \* ThreadPoolExecutor(max_workers=max_workers)
NumIds == 2                 \* identifiers read from applications.jsonl, at most

\* Upper bound of the token values of one fan-out: the pre-warm and one
\* grant per request of each worker.
MaxPosts == 1 + 3 * NumIds

\* Token responses during the fan-out: a token that is stale after one
\* second, one with the default lifetime, a rejection.
DetailGrantResponses ==
    { g \in GrantResponses :
        /\ g.has_expires_in => g.expires_in = SAFETY_BUFFER + 1
        /\ g.has_access_token \/ g.status = 401 }

\* A task before its worker picked it up.
QueuedTask ==
    [req |-> 1, phase |-> "queued", seen |-> 0, exp_in |-> 0,
     fate |-> "pending", entitlements |-> "unset", sso_configuration |-> "unset",
     result |-> "unset"]

InitDetails ==
    /\ InitClient
    /\ NoCalls
    /\ NoTraversal
    /\ app_ids \in 0..NumIds
    /\ main_pc = "prewarm"
    /\ task = [i \in 1..app_ids |-> QueuedTask]
    /\ consumed = <<>> /\ written = <<>> /\ successful = 0
    /\ refreshed = [k \in 0..MaxPosts |-> 0]
    /\ grant_failed = FALSE
    /\ NoAux

Running == { i \in 1..app_ids : task[i].phase \in {"check", "posting", "storing", "get"} }

\* main up to the thread pool: "if len(app_ids) == 0: return", then
\* client._get_access_token(), alone; an exception is logged and re-raised.
PreWarm ==
    /\ main_pc = "prewarm"
    /\ IF app_ids = 0
       THEN /\ main_pc' = "done" /\ exit' = "0"
            /\ UNCHANGED <<clientVars, token_posts, raised, refreshed, grant_failed>>
       ELSE \E g \in DetailGrantResponses :
              LET a == GetAccessToken(access_token, token_expires_at, now, g, access_token) IN
              /\ access_token' = a.access_token
              /\ token_expires_at' = a.token_expires_at
              /\ token_posts' = token_posts + a.posts
              /\ refreshed' = IF a.posts = 1
                              THEN [refreshed EXCEPT ![access_token] = @ + 1]
                              ELSE refreshed
              /\ grant_failed' = (a.raised # "None")
              /\ IF a.raised # "None"
                 THEN main_pc' = "done" /\ raised' = a.raised /\ exit' = MainExit(a.raised)
                 ELSE main_pc' = "fanout" /\ UNCHANGED <<raised, exit>>
    /\ UNCHANGED <<now, ticks, logVars, travVars>>
    /\ UNCHANGED <<app_ids, task, consumed, written, successful>>
    /\ UNCHANGED auxVars

\* A pool thread starts the task of identifier i.
WorkerStart(i) ==
    /\ main_pc = "fanout"
    /\ task[i].phase = "queued"
    /\ Cardinality(Running) < max_workers
    /\ task' = [task EXCEPT ![i].phase = "check"]
    /\ UNCHANGED <<clientVars, envVars, logVars, pageVars>>
    /\ UNCHANGED <<app_ids, main_pc, consumed, written, successful, refreshed, grant_failed>>
    /\ UNCHANGED auxVars

\* Mutant: a failure of any of the three requests makes the function return
\* None.
AfterFailure_Drop(t, why) ==
    [t EXCEPT !.fate = IF t.req = 1 THEN why ELSE @, !.result = "None",
              !.phase = "finished"]

\* The request in hand of task t failed with an exception (at its token step
\* or at its GET): the main request makes the function return None, the two
\* supplementary ones are replaced by an empty value.
AfterFailure(t, why) ==
    IF t.req = 1
    THEN [t EXCEPT !.fate = why, !.result = "None", !.phase = "finished"]
    ELSE IF t.req = 2
    THEN [t EXCEPT !.entitlements = "empty", !.req = 3, !.phase = "check"]
    ELSE [t EXCEPT !.sso_configuration = "empty", !.result = "details",
                   !.phase = "finished"]

\* The request in hand of task t returned its JSON body.
AfterSuccess(t) ==
    IF t.req = 1
    THEN [t EXCEPT !.fate = "ok", !.req = 2, !.phase = "check"]
    ELSE IF t.req = 2
    THEN [t EXCEPT !.entitlements = "fetched", !.req = 3, !.phase = "check"]
    ELSE [t EXCEPT !.sso_configuration = "fetched", !.result = "details",
                   !.phase = "finished"]

\* _get_access_token in a worker, the test of the cached token; when it is
\* not fresh the POST to the token endpoint leaves.
WorkerCheck(i) ==
    /\ task[i].phase = "check"
    /\ IF TokenIsFresh(access_token, token_expires_at, now)
       THEN /\ task' = [task EXCEPT ![i].phase = "get"]
            /\ UNCHANGED <<token_posts, refreshed>>
       ELSE /\ token_posts' = token_posts + 1
            /\ refreshed' = [refreshed EXCEPT ![access_token] = @ + 1]
            /\ task' = [task EXCEPT ![i].phase = "posting",
                                    ![i].seen = access_token]
    /\ UNCHANGED <<clientVars, now, ticks, logVars, pageVars>>
    /\ UNCHANGED <<app_ids, main_pc, consumed, written, successful, grant_failed>>
    /\ UNCHANGED auxVars

\* _get_access_token in a worker, the answer of the token endpoint and
\* "self.access_token = token_data['access_token']".
WorkerGrant(i) ==
    /\ task[i].phase = "posting"
    /\ \E g \in DetailGrantResponses :
         IF GrantError(g) # "None"
         THEN /\ task' = [task EXCEPT ![i] = AfterFailure([@ EXCEPT !.seen = 0], "auth")]
              /\ grant_failed' = TRUE
              /\ UNCHANGED access_token
         ELSE /\ access_token' = task[i].seen + 1
              /\ grant_failed' = grant_failed
              /\ task' = [task EXCEPT ![i].phase = "storing",
                                      ![i].seen = 0,
                                      ![i].exp_in = ExpiresIn(g)]
    /\ UNCHANGED <<token_expires_at, envVars, logVars, pageVars>>
    /\ UNCHANGED <<app_ids, main_pc, consumed, written, successful, refreshed>>
    /\ UNCHANGED auxVars

\* _get_access_token in a worker,
\* "self.token_expires_at = time.time() + expires_in - 60".
WorkerStore(i) ==
    /\ task[i].phase = "storing"
    /\ token_expires_at' = now + task[i].exp_in - SAFETY_BUFFER
    /\ task' = [task EXCEPT ![i].phase = "get", ![i].exp_in = 0]
    /\ UNCHANGED <<access_token, envVars, logVars, pageVars>>
    /\ UNCHANGED <<app_ids, main_pc, consumed, written, successful, refreshed, grant_failed>>
    /\ UNCHANGED auxVars

\* What a GET of a worker ends in: the detail request may also find the
\* application gone (404) or be refused (403).
DetailGetOutcomes(req) ==
    IF req = 1 THEN {"ok", "404", "403", "error"} ELSE {"ok", "error"}

\* _make_request in a worker, the GET and what fetch_application_details
\* does with its outcome.
WorkerGet(i) ==
    /\ task[i].phase = "get"
    /\ \E o \in DetailGetOutcomes(task[i].req) :
         task' = [task EXCEPT ![i] = IF o = "ok" THEN AfterSuccess(@)
                                      ELSE AfterFailure(@, o)]
    /\ UNCHANGED <<clientVars, envVars, logVars, pageVars>>
    /\ UNCHANGED <<app_ids, main_pc, consumed, written, successful, refreshed, grant_failed>>
    /\ UNCHANGED auxVars

\* Mutant: every consumed outcome is written, None included.
ShouldWrite_Always(details) == TRUE

\* main: "if details:" before the line is written and the counter incremented.
ShouldWrite(details) == details # "None"

\* Mutant: the counter is incremented for every outcome consumed.
Collect_CountAll(i) ==
    /\ main_pc = "fanout"
    /\ task[i].phase = "finished"
    /\ task' = [task EXCEPT ![i].phase = "consumed"]
    /\ consumed' = Append(consumed, i)
    /\ successful' = successful + 1
    /\ IF ShouldWrite(task[i].result)
       THEN written' = Append(written, i)
       ELSE UNCHANGED written
    /\ UNCHANGED <<clientVars, envVars, logVars, pageVars>>
    /\ UNCHANGED <<app_ids, main_pc, refreshed, grant_failed>>
    /\ UNCHANGED auxVars

\* main, one iteration of "for i, future in enumerate(as_completed(...))".
Collect(i) ==
    /\ main_pc = "fanout"
    /\ task[i].phase = "finished"
    /\ task' = [task EXCEPT ![i].phase = "consumed"]
    /\ consumed' = Append(consumed, i)
    /\ IF ShouldWrite(task[i].result)
       THEN written' = Append(written, i) /\ successful' = successful + 1
       ELSE UNCHANGED <<written, successful>>
    /\ UNCHANGED <<clientVars, envVars, logVars, pageVars>>
    /\ UNCHANGED <<app_ids, main_pc, refreshed, grant_failed>>
    /\ UNCHANGED auxVars

\* main after the pool: every future was consumed, the counts are logged.
FanOutDone ==
    /\ main_pc = "fanout"
    /\ \A i \in 1..app_ids : task[i].phase = "consumed"
    /\ main_pc' = "done"
    /\ exit' = "0"
    /\ UNCHANGED <<clientVars, envVars, logVars, travVars, raised>>
    /\ UNCHANGED <<app_ids, task, consumed, written, successful, refreshed, grant_failed>>
    /\ UNCHANGED auxVars

\* The clock advances while the fan-out runs: a second passes, once, which
\* is when a token granted for SAFETY_BUFFER + 1 seconds goes stale.
FanOutTick ==
    /\ main_pc = "fanout"
    /\ ticks = 0
    /\ now' = now + 1
    /\ ticks' = ticks + 1
    /\ UNCHANGED <<clientVars, token_posts, logVars, pageVars, detailVars>>
    /\ UNCHANGED auxVars

NextDetails ==
    \/ PreWarm
    \/ \E i \in 1..app_ids :
         WorkerStart(i) \/ WorkerCheck(i) \/ WorkerGrant(i) \/ WorkerStore(i)
           \/ WorkerGet(i) \/ Collect(i)
    \/ FanOutDone
    \/ FanOutTick

SpecDetails == InitDetails /\ [][NextDetails]_vars

\* The identifiers whose detail request returned a body, and those whose
\* detail request found the application gone.
FetchedIds == { i \in 1..app_ids : task[i].fate = "ok" }

NotFoundIds == { i \in 1..app_ids : task[i].fate = "404" }

NoneOutcomes == { i \in 1..app_ids : task[i].result = "None" }

\* The pool has started a task; the loop over the futures has ended.
FanOutStarted == \E i \in 1..app_ids : task[i].phase # "queued"

FanOutOver == main_pc = "done" /\ FanOutStarted

\* C5: in the application-details fan-out nothing is raised once the pool
\* runs, and when it is over every identifier has been consumed exactly once,
\* the identifiers written and counted are exactly those whose detail request
\* succeeded, every other one gave None, and with exactly one 404 among
\* otherwise successful fetches there are N-1 successes and one None.
C5_PartialFailure ==
    /\ FanOutStarted => raised = "None"
    /\ FanOutOver =>
         /\ exit = "0"
         /\ Len(consumed) = app_ids
         /\ \A i \in 1..app_ids :
              Cardinality({ k \in 1..Len(consumed) : consumed[k] = i }) = 1
         /\ { written[k] : k \in 1..Len(written) } = FetchedIds
         /\ Len(written) = successful
         /\ successful = Cardinality(FetchedIds)
         /\ NoneOutcomes = (1..app_ids) \ FetchedIds
         /\ NotFoundIds \subseteq NoneOutcomes
         /\ (Cardinality(NotFoundIds) = 1 /\ Cardinality(FetchedIds) = app_ids - 1)
              => (successful = app_ids - 1 /\ NoneOutcomes = NotFoundIds)

C5_Witness ==
    /\ FanOutOver
    /\ app_ids = NumIds
    /\ Cardinality(NotFoundIds) = 1
    /\ Cardinality(FetchedIds) = NumIds - 1
    /\ successful = NumIds - 1
    /\ Len(consumed) = NumIds

\* The identifiers whose fetch_application_details has returned.
Returned == { i \in 1..app_ids : task[i].result # "unset" }

\* C18: what fetch_application_details returns tells a success, which
\* carries the payload, from a failure, and tells the failures apart:
\* not found, forbidden, and any other error of the detail request give
\* different outcomes.
C18_TypedOutcome ==
    /\ \A i \in Returned : task[i].fate = "ok" <=> task[i].result = "details"
    /\ \A i, j \in Returned :
         task[i].fate # task[j].fate => task[i].result # task[j].result

\* C19: a failed entitlements or SSO request leaves an empty value in its
\* place and nothing else: once the detail request of an identifier has
\* succeeded, its fetch returns the record, with each of the two values
\* either fetched or empty, main writes it, and nothing is raised.
C19_SubRequestFailure ==
    \A i \in 1..app_ids :
        /\ (task[i].entitlements = "empty" \/ task[i].sso_configuration = "empty")
              => (task[i].fate = "ok" /\ task[i].result # "None" /\ raised = "None")
        /\ (task[i].fate = "ok" /\ task[i].phase \in {"finished", "consumed"})
              => /\ task[i].result = "details"
                 /\ task[i].entitlements \in {"fetched", "empty"}
                 /\ task[i].sso_configuration \in {"fetched", "empty"}
        /\ (task[i].fate = "ok" /\ task[i].phase = "consumed")
              => \E k \in DOMAIN written : written[k] = i

\* C19 witness: both supplementary requests of an identifier failed and its
\* record was written; another identifier's entitlements alone failed.
C19_Witness ==
    /\ main_pc = "done" /\ app_ids = NumIds
    /\ \E i, j \in 1..app_ids :
         /\ i # j
         /\ task[i].entitlements = "empty" /\ task[i].sso_configuration = "empty"
         /\ task[j].entitlements = "empty" /\ task[j].sso_configuration = "fetched"
         /\ \E k \in DOMAIN written : written[k] = i
         /\ \E k \in DOMAIN written : written[k] = j

\* C9: as long as no token request was rejected, no token value has had more
\* than one token request sent for it, the pre-warm's included, whatever the
\* interleaving of the workers and also when the token goes stale while the
\* pool runs.
C9_RefreshedOncePerWindow ==
    ~grant_failed => \A k \in DOMAIN refreshed : refreshed[k] <= 1

-----------------------------------------------------------------------------
(* One request through the client's session: SpecSession                   *)
(* _create_session mounts HTTPAdapter(max_retries=Retry(total=MAX_RETRIES, *)
(* status_forcelist=[429, 500, 502, 503, 504], allowed_methods=[GET,       *)
(* POST])) on the session; session.get / session.post then run urllib3's   *)
(* retry loop, and the caller applies raise_for_status to what comes back. *)

\* status_forcelist=[429, 500, 502, 503, 504]
status_forcelist == {429, 500, 502, 503, 504}

\* allowed_methods=["GET", "POST"]
allowed_methods == {"GET", "POST"}

\* Statuses for which Retry honours a Retry-After header of the response
\* (respect_retry_after_header is left at its default, True).
RETRY_AFTER_STATUS_CODES == {413, 429, 503}

\* What the server answers to one attempt: a status and whether the
\* response carries a Retry-After header.
Responses == [status : {200, 404, 413} \cup status_forcelist, retry_after : BOOLEAN]

\* Mutant: only the status_forcelist makes a response retryable.
IsRetry_ForcelistOnly(method, left, r) ==
    method \in allowed_methods /\ r.status \in status_forcelist

\* Retry.is_retry as configured: the method is allowed and the status is in
\* the forcelist, or retries remain and the response of a 413, 429 or 503
\* carries Retry-After.
IsRetry(method, left, r) ==
    /\ method \in allowed_methods
    /\ \/ r.status \in status_forcelist
       \/ left # 0 /\ r.retry_after /\ r.status \in RETRY_AFTER_STATUS_CODES

InitSession ==
    /\ InitClient
    /\ NoCalls
    /\ NoTraversal
    /\ NoFanOut
    /\ NoPool
    /\ ValidConfig
    /\ \E m \in allowed_methods, b \in 0..MAX_RETRIES :
         sess = [method |-> m, pc |-> "sending", budget |-> b, total |-> b,
                 seen |-> <<>>, raised |-> "None"]

\* One attempt of session.get / session.post: the response either is handed
\* to the caller, whose raise_for_status raises HTTPError on 4xx and 5xx, or
\* is retried after the backoff; Retry.increment takes one from the budget
\* and raises MaxRetryError (RetryError for the caller) once it is below 0.
SessionAttempt ==
    /\ sess.pc = "sending"
    /\ \E r \in Responses :
         sess' = [sess EXCEPT
                    !.seen = Append(@, r),
                    !.total = IF IsRetry(sess.method, sess.total, r) THEN @ - 1 ELSE @,
                    !.pc = IF IsRetry(sess.method, sess.total, r) /\ sess.total - 1 >= 0
                           THEN "sending" ELSE "done",
                    !.raised = IF IsRetry(sess.method, sess.total, r)
                               THEN (IF sess.total - 1 < 0 THEN "RequestException" ELSE "None")
                               ELSE (IF StatusOk(r.status) THEN "None"
                                     ELSE "RequestException")]
    /\ UNCHANGED <<clientVars, envVars, logVars, pageVars, detailVars, pool, config>>

NextSession == SessionAttempt

SpecSession == InitSession /\ [][NextSession]_vars

\* Attempt i received a 4xx status outside the forcelist.
OtherClientError(i) ==
    sess.seen[i].status \in 400..499 /\ sess.seen[i].status \notin status_forcelist

\* The response of attempt i ended the request in failure.
FailedAt(i) == i = Len(sess.seen) /\ sess.pc = "done" /\ sess.raised # "None"

\* C13 as stated: a request is attempted at most 1 + MAX_RETRIES times, after
\* that many responses of the forcelist it has failed, and a response with a
\* 4xx status outside the forcelist is never followed by another attempt:
\* the request fails on it.
C13_RetryBudget ==
    /\ Len(sess.seen) <= 1 + sess.budget
    /\ (Len(sess.seen) = 1 + sess.budget
         /\ \A i \in DOMAIN sess.seen : sess.seen[i].status \in status_forcelist)
          => FailedAt(Len(sess.seen))
    /\ \A i \in DOMAIN sess.seen : OtherClientError(i) => FailedAt(i)

\* C13 amended: as above, except that a 413 carrying Retry-After is retried
\* like a forcelist status while retries remain; every other 4xx status
\* outside the forcelist, and that one once no retry remains, fails the
\* request with no further attempt.
C13_RetryBudgetRetryAfter ==
    /\ Len(sess.seen) <= 1 + sess.budget
    /\ (Len(sess.seen) = 1 + sess.budget
         /\ \A i \in DOMAIN sess.seen : sess.seen[i].status \in status_forcelist)
          => FailedAt(Len(sess.seen))
    /\ \A i \in DOMAIN sess.seen :
         OtherClientError(i) =>
            (FailedAt(i) <=> ~(/\ sess.seen[i].status = 413 /\ sess.seen[i].retry_after
                               /\ i <= sess.budget))

\* C13 witness: with the default budget, four responses of the forcelist
\* exhausted it and the request failed.
C13_Witness ==
    /\ sess.budget = 3 /\ Len(sess.seen) = 4
    /\ \A i \in DOMAIN sess.seen : sess.seen[i].status \in status_forcelist
    /\ sess.pc = "done" /\ sess.raised = "RequestException"

-----------------------------------------------------------------------------
(* The thread pool of the fan-out with more identifiers than workers:      *)
(* SpecPool.  fetch_application_details.main submits one task per          *)
(* identifier to ThreadPoolExecutor(max_workers=10) and iterates           *)
(* as_completed over the futures.  A task is one step here; what it does   *)
(* inside is SpecDetails.  The pool starts tasks in submission order on at *)
(* most max_workers threads.  as_completed first hands over, in no         *)
(* particular order, the futures already finished when its iteration       *)
(* begins, then the others in the order they finish.                      *)

MaxBacklog == 2             \* finished futures main has not consumed yet

\* Numbers of identifiers: fewer than workers, and one more than workers.
PoolSizes == {1, 2, 3, max_workers + 1}

PoolRunning == { i \in 1..pool.n : pool.phase[i] = "running" }

PoolQueued == { i \in 1..pool.n : pool.phase[i] = "queued" }

PoolConsumed == { i \in 1..pool.n : pool.phase[i] = "consumed" }

\* Mutant: the pool starts a thread for every queued task.
HasIdleWorker_Unbounded == TRUE

\* ThreadPoolExecutor(max_workers=max_workers): a thread is free.
HasIdleWorker == Cardinality(PoolRunning) < max_workers

\* The sequence q without its element x.
Without(q, x) == SelectSeq(q, LAMBDA y : y # x)

\* main has submitted every task: future i is that of identifier
\* future_to_app_id[i]; as_completed has not been entered yet.
InitPool ==
    /\ InitClient
    /\ NoCalls
    /\ NoTraversal
    /\ NoFanOut
    /\ NoSession
    /\ ValidConfig
    /\ \E n \in PoolSizes :
         pool = [n |-> n, pc |-> "submitted",
                 phase |-> [i \in 1..n |-> "queued"],
                 future_to_app_id |-> [i \in 1..n |-> i],
                 early |-> {}, order |-> <<>>, last |-> 0]

\* A free thread takes the oldest queued task.
PoolStart ==
    /\ pool.pc \in {"submitted", "iterating"}
    /\ PoolQueued # {}
    /\ HasIdleWorker
    /\ LET i == CHOOSE j \in PoolQueued : \A k \in PoolQueued : j <= k IN
       pool' = [pool EXCEPT !.phase[i] = "running"]
    /\ UNCHANGED <<clientVars, envVars, logVars, pageVars, detailVars, sess, config>>

\* fetch_application_details returns in some thread: its future is finished.
PoolFinish(i) ==
    /\ pool.pc \in {"submitted", "iterating"}
    /\ pool.phase[i] = "running"
    /\ Len(pool.order) < MaxBacklog
    /\ pool' = [pool EXCEPT !.phase[i] = "finished", !.order = Append(@, i)]
    /\ UNCHANGED <<clientVars, envVars, logVars, pageVars, detailVars, sess, config>>

\* main reaches "for i, future in enumerate(as_completed(future_to_app_id), 1)":
\* the futures finished by now are set apart.
AsCompletedBegin ==
    /\ pool.pc = "submitted"
    /\ pool' = [pool EXCEPT !.pc = "iterating",
                            !.early = { pool.order[k] : k \in DOMAIN pool.order }]
    /\ UNCHANGED <<clientVars, envVars, logVars, pageVars, detailVars, sess, config>>

\* One iteration of the loop: as_completed hands over a future, main looks
\* up its identifier in future_to_app_id and takes its result.
PoolCollect(i) ==
    /\ pool.pc = "iterating"
    /\ pool.phase[i] = "finished"
    /\ IF pool.early # {} THEN i \in pool.early ELSE i = Head(pool.order)
    /\ pool' = [pool EXCEPT !.phase[i] = "consumed",
                            !.early = @ \ {i},
                            !.order = Without(@, i),
                            !.last = pool.future_to_app_id[i]]
    /\ UNCHANGED <<clientVars, envVars, logVars, pageVars, detailVars, sess, config>>

\* Every future was handed over: the loop and the pool end.
PoolDone ==
    /\ pool.pc = "iterating"
    /\ PoolConsumed = 1..pool.n
    /\ pool' = [pool EXCEPT !.pc = "done"]
    /\ UNCHANGED <<clientVars, envVars, logVars, pageVars, detailVars, sess, config>>

NextPool ==
    \/ PoolStart
    \/ \E i \in 1..pool.n : PoolFinish(i) \/ PoolCollect(i)
    \/ AsCompletedBegin
    \/ PoolDone

SpecPool == InitPool /\ [][NextPool]_vars

\* The future consumed by a step, 0 when the step consumes none.
ConsumedByStep ==
    IF \E i \in 1..pool.n : pool.phase[i] = "finished" /\ pool'.phase[i] = "consumed"
    THEN CHOOSE i \in 1..pool.n : pool.phase[i] = "finished" /\ pool'.phase[i] = "consumed"
    ELSE 0

\* C14 as stated: never more than 10 tasks run, and every step of the loop
\* consumes the finished future that finished first among those not yet
\* consumed, under the identifier it was submitted for.
C14_TenWorkersCompletionOrder ==
    [][ /\ Cardinality(PoolRunning) <= 10
        /\ ConsumedByStep # 0 =>
             /\ ConsumedByStep = Head(pool.order)
             /\ pool'.last = ConsumedByStep ]_vars

\* C14 amended: never more than 10 tasks run; every step of the loop consumes
\* a finished future under the identifier it was submitted for; futures that
\* finish after the iteration of as_completed began are consumed in the
\* order they finished, after those that had finished before, which come in
\* no particular order.
C14_TenWorkersAsCompleted ==
    [][ /\ Cardinality(PoolRunning) <= 10
        /\ ConsumedByStep # 0 =>
             /\ pool'.last = ConsumedByStep
             /\ \/ ConsumedByStep \in pool.early
                \/ pool.early = {} /\ ConsumedByStep = Head(pool.order) ]_vars

\* C14 witness: eleven identifiers, ten tasks running at once while the
\* eleventh future, of a later submitted task than those still running, has
\* been consumed under its own identifier.
C14_Witness ==
    /\ pool.n = max_workers + 1
    /\ Cardinality(PoolRunning) = 10
    /\ PoolConsumed # {} /\ pool.last \in PoolConsumed
    /\ \E i \in PoolRunning : i < pool.last

-----------------------------------------------------------------------------
(* The single-shot traversal: SpecSingle                                    *)
(* fetch_attribute_functions makes one _make_request and yields the items  *)
(* of the response; main drains the generator into the output file.        *)

MaxFuncs == 3               \* items under one key of the response

\* The items 1..k found under `key` of the body ("" for a bare array).
FuncItems(key, k) == [i \in 1..k |-> [key |-> key, n |-> i]]

\* The JSON bodies the endpoint answers with: a bare array, an object with
\* or without each of the keys attributeFunctions and functions, or a value
\* that is neither (null, a number, a string).
FunctionBodies ==
    [kind : {"list"}, items : { FuncItems("", k) : k \in 0..MaxFuncs },
     has_attributeFunctions : {FALSE}, attributeFunctions : {<<>>},
     has_functions : {FALSE}, functions : {<<>>}]
    \cup
    { b \in [kind : {"dict"}, items : {<<>>},
             has_attributeFunctions : BOOLEAN,
             attributeFunctions : { FuncItems("attributeFunctions", k) : k \in 0..MaxFuncs },
             has_functions : BOOLEAN,
             functions : { FuncItems("functions", k) : k \in 0..MaxFuncs }] :
        /\ ~b.has_attributeFunctions => b.attributeFunctions = <<>>
        /\ ~b.has_functions => b.functions = <<>> }
    \cup
    [kind : {"scalar"}, items : {<<>>},
     has_attributeFunctions : {FALSE}, attributeFunctions : {<<>>},
     has_functions : {FALSE}, functions : {<<>>}]

\* No response has been read.
NoFunctionBody ==
    [kind |-> "none", items |-> <<>>,
     has_attributeFunctions |-> FALSE, attributeFunctions |-> <<>>,
     has_functions |-> FALSE, functions |-> <<>>]

\* Mutant: the key functions is looked up first.
FunctionsOf_FunctionsFirst(data) ==
    IF data.kind = "list" THEN data.items
    ELSE IF data.has_functions THEN data.functions
    ELSE IF data.has_attributeFunctions THEN data.attributeFunctions
    ELSE <<>>

\* "if isinstance(data, list): functions = data" and otherwise
\* "data.get('attributeFunctions', data.get('functions', []))".
FunctionsOf(data) ==
    IF data.kind = "list" THEN data.items
    ELSE IF data.has_attributeFunctions THEN data.attributeFunctions
    ELSE IF data.has_functions THEN data.functions
    ELSE <<>>

InitSingle ==
    /\ InitClient
    /\ NoCalls
    /\ NoFanOut
    /\ NoAux
    /\ strategy = "attribute_functions" /\ mode = "arbitrary"
    /\ total = 0 /\ limit = 1 /\ cursor = 0 /\ total_fetched = 0
    /\ pc = "fetch"
    /\ page = <<>> /\ resp = NoFunctionBody
    /\ yielded = <<>> /\ received = <<>> /\ requested = <<>> /\ reported = <<>>
    /\ failed = "None" /\ raised = "None" /\ exit = "running"

\* fetch_attribute_functions up to its first yield: the request, the choice
\* of the array, "if not functions: return".  A body that is neither array
\* nor object has no get: AttributeError, logged and re-raised like a failed
\* request, and main has no handler.
SingleFetch ==
    /\ strategy = "attribute_functions" /\ pc = "fetch"
    /\ \E g \in GrantsAsked, r \in GetOutcomes, data \in FunctionBodies :
         LET m == MakeRequest(access_token, token_expires_at, now, g, token_posts, r) IN
         /\ PageRequest(m)
         /\ IF m.raised # "None"
            THEN /\ failed' = IF m.gets = 0 THEN "auth" ELSE "get"
                 /\ Finish(m.raised, MainExit(m.raised))
                 /\ UNCHANGED <<page, resp>>
            ELSE IF data.kind = "scalar"
            THEN /\ failed' = "body"
                 /\ resp' = data
                 /\ Finish("AttributeError", MainExit("AttributeError"))
                 /\ UNCHANGED page
            ELSE /\ failed' = failed
                 /\ resp' = data
                 /\ page' = FunctionsOf(data)
                 /\ IF FunctionsOf(data) = <<>>
                    THEN Finish("None", MainExit("None"))
                    ELSE pc' = "yield" /\ UNCHANGED <<raised, exit>>
    /\ UNCHANGED <<cursor, total_fetched, received, reported>>
    /\ UNCHANGED auxVars

\* "for func in functions": one item is yielded; after the last one the
\* generator ends, no further request is made.
SingleYield ==
    /\ strategy = "attribute_functions" /\ pc = "yield"
    /\ yielded' = Append(yielded, Head(page))
    /\ total_fetched' = total_fetched + 1
    /\ page' = Tail(page)
    /\ IF Tail(page) = <<>>
       THEN Finish("None", MainExit("None"))
       ELSE UNCHANGED <<pc, raised, exit>>
    /\ UNCHANGED <<clientVars, envVars, logVars, detailVars, auxVars>>
    /\ UNCHANGED <<strategy, mode, total, limit, cursor, resp, received, requested,
                   reported, failed>>

NextSingle == SingleFetch \/ SingleYield

SpecSingle == InitSingle /\ [][NextSingle]_vars

\* C15: fetch_attribute_functions sends at most one GET, exactly one once
\* its token step has succeeded, whatever the response holds; what it yields
\* is, in order, the response itself when that is an array, otherwise the
\* value of attributeFunctions when that key is present, otherwise the value
\* of functions when that key is present, otherwise nothing.
C15_SingleShot ==
    /\ Len(requested) <= 1
    /\ (pc # "fetch" /\ failed # "auth") => Len(requested) = 1
    /\ resp.kind \in {"list", "dict"} =>
         /\ yielded \o page =
               IF resp.kind = "list" THEN resp.items
               ELSE IF resp.has_attributeFunctions THEN resp.attributeFunctions
               ELSE IF resp.has_functions THEN resp.functions
               ELSE <<>>
         /\ pc = "done" => page = <<>> /\ raised = "None"
    /\ resp.kind \notin {"list", "dict"} => yielded = <<>>

\* C15 witness: the response carried both keys, each with items, and the
\* traversal ended having yielded those of attributeFunctions after one GET.
C15_Witness ==
    /\ pc = "done" /\ resp.kind = "dict"
    /\ resp.has_attributeFunctions /\ resp.has_functions
    /\ Len(resp.functions) = MaxFuncs /\ Len(resp.attributeFunctions) = MaxFuncs
    /\ yielded = resp.attributeFunctions
    /\ Len(requested) = 1

-----------------------------------------------------------------------------
(* The records of a page of applications: SpecItems                        *)
(* fetch_applications, the body of "for app in applications": the id is    *)
(* read from _links.self.href and the record is yielded.  Strings are      *)
(* sequences of characters.                                                 *)

MaxHref == 3                \* characters of an href

HrefChars == {"/", "a", "b"}

\* The strings of at most n characters.
Strings(n) == UNION { [1..k -> HrefChars] : k \in 0..n }

\* The items the server returns: with or without a direct id; without
\* _links, with _links lacking self, with self lacking href, or with an href
\* (which may be the empty string).
Apps ==
    { app \in [has_id : BOOLEAN, id : {<<>>, <<"a">>, <<"b">>},
               links : {"absent", "no_self", "no_href", "href"},
               href : Strings(MaxHref)] :
        /\ app.has_id <=> app.id # <<>>
        /\ app.links # "href" => app.href = <<>> }

\* href.split('/')[-1]: the characters after the last "/".
RECURSIVE LastSegment(_)
LastSegment(href) ==
    IF href = <<>> THEN <<>>
    ELSE IF href[Len(href)] = "/" THEN <<>>
    ELSE Append(LastSegment(SubSeq(href, 1, Len(href) - 1)), href[Len(href)])

\* "if '_links' in app and 'self' in app['_links']", then
\* "href = app['_links']['self'].get('href', '')" and "if href:".
HasHref(app) == app.links = "href" /\ app.href # <<>>

\* "app_id = href.split('/')[-1]" and "app['id'] = app_id".
DeriveId(app) ==
    IF HasHref(app)
    THEN [app EXCEPT !.has_id = TRUE, !.id = LastSegment(app.href)]
    ELSE app

\* A page of one item has arrived.
InitItems ==
    /\ InitClient
    /\ NoCalls
    /\ NoFanOut
    /\ NoAux
    /\ strategy = "applications" /\ mode = "arbitrary"
    /\ total = 1 /\ limit = 1 /\ cursor = 0 /\ total_fetched = 0
    /\ pc = "yield"
    /\ \E app \in Apps : page = <<app>> /\ received = <<app>>
    /\ resp = [is_list |-> FALSE, total |-> 1]
    /\ yielded = <<>> /\ requested = <<0>> /\ reported = <<1>>
    /\ failed = "None" /\ raised = "None" /\ exit = "running"

\* One iteration of "for app in applications"; after the last item
\* "offset + limit >= total" ends the traversal.
AppsEnrich ==
    /\ strategy = "applications" /\ pc = "yield" /\ page # <<>>
    /\ yielded' = Append(yielded, DeriveId(Head(page)))
    /\ total_fetched' = total_fetched + 1
    /\ page' = Tail(page)
    /\ IF Tail(page) = <<>>
       THEN Finish("None", MainExit("None"))
       ELSE UNCHANGED <<pc, raised, exit>>
    /\ UNCHANGED <<clientVars, envVars, logVars, detailVars, auxVars>>
    /\ UNCHANGED <<strategy, mode, total, limit, cursor, resp, received, requested,
                   reported, failed>>

NextItems == AppsEnrich

SpecItems == InitItems /\ [][NextItems]_vars

\* C20: a yielded item that came with a direct id carries that id; one that
\* came without carries the last path segment of its _links.self.href when
\* it has one, and no id otherwise.
C20_IdFromHref ==
    \A k \in DOMAIN yielded :
        /\ received[k].has_id =>
             (yielded[k].has_id /\ yielded[k].id = received[k].id)
        /\ (~received[k].has_id /\ HasHref(received[k])) =>
             (yielded[k].has_id /\ yielded[k].id = LastSegment(received[k].href))
        /\ (~received[k].has_id /\ ~HasHref(received[k])) => ~yielded[k].has_id

-----------------------------------------------------------------------------
(* One run of an extraction, serial or parallel: SpecRuns                   *)
(* Either one of the traversals of SpecPages or the fan-out of SpecDetails. *)

InitRuns == InitPages \/ InitDetails

NextRuns == NextPages \/ NextDetails

SpecRuns == InitRuns /\ [][NextRuns]_vars

\* Every request of the fan-out succeeded.
AllFetched ==
    \A i \in 1..app_ids :
        /\ task[i].fate = "ok"
        /\ task[i].entitlements = "fetched"
        /\ task[i].sso_configuration = "fetched"

\* C21: the records of a run in which every request succeeded are fixed by
\* the upstream dataset alone, so two such runs give the same set: a serial
\* traversal of a collection of `total` items yields exactly the items
\* 1..total, in order; the fan-out over the identifiers 1..app_ids writes
\* one complete record for each of them, whatever the order in which the
\* fetches completed.
C21_Idempotence ==
    /\ (strategy # "none" /\ mode = "honest" /\ failed = "None" /\ pc = "done")
          => yielded = [i \in 1..total |-> i]
    /\ (main_pc = "done" /\ FanOutStarted /\ AllFetched)
          => /\ { written[k] : k \in DOMAIN written } = 1..app_ids
             /\ Len(written) = app_ids
             /\ \A i \in 1..app_ids : task[i].result = "details"

\* C21 witness: a fan-out in which every request succeeded has ended, its
\* outcomes consumed in another order than the identifiers were submitted.
C21_Witness ==
    /\ main_pc = "done" /\ app_ids = NumIds /\ AllFetched
    /\ consumed[1] # 1
    /\ Len(written) = NumIds

-----------------------------------------------------------------------------
(* A script from its start to its first request: SpecConfig *)

\* The extraction scripts of src/scripts.
Scripts ==
    {"fetch_applications", "fetch_application_details", "fetch_attribute_functions",
     "fetch_attributes", "fetch_federations", "fetch_groups", "fetch_mfa_config",
     "fetch_dynamic_groups", "fetch_dynamic_groups_detail", "fetch_scim_capabilities",
     "fetch_api_clients", "fetch_identity_sources"}

\* Environments: each credential is set or left out (os.getenv(..., '')).
Configs == [TENANT_URL : {"", "set"}, CLIENT_ID : {"", "set"}, CLIENT_SECRET : {"", "set"}]

\* "from config import config": config.py defines Config and get_config, no
\* module-level config, so the import statement raises ImportError.
ImportsModuleConfig(s) == s \in {"fetch_attributes", "fetch_federations"}

\* The scripts whose main (or __main__ block) calls config.validate() before
\* it builds the client.
CallsValidate(s) == s \notin {"fetch_api_clients", "fetch_identity_sources"}

\* The URL property the first request reads exists on Config:
\* api_clients_url and identity_sources_url are not defined there.
HasUrlProperty(s) == s \notin {"fetch_api_clients", "fetch_identity_sources"}

\* Mutant: the secret is checked first.
Validate_SecretFirst(c) ==
    IF c.CLIENT_SECRET = "" THEN "IBM_VERIFY_CLIENT_SECRET is required"
    ELSE IF c.TENANT_URL = "" THEN "IBM_VERIFY_TENANT_URL is required"
    ELSE IF c.CLIENT_ID = "" THEN "IBM_VERIFY_CLIENT_ID is required"
    ELSE "True"

\* Config.validate: the message of the ValueError raised, or "True".
Validate(c) ==
    IF c.TENANT_URL = "" THEN "IBM_VERIFY_TENANT_URL is required"
    ELSE IF c.CLIENT_ID = "" THEN "IBM_VERIFY_CLIENT_ID is required"
    ELSE IF c.CLIENT_SECRET = "" THEN "IBM_VERIFY_CLIENT_SECRET is required"
    ELSE "True"

InitConfig ==
    /\ InitClient
    /\ NoCalls
    /\ NoFanOut
    /\ NoSession
    /\ NoPool
    /\ config \in Configs
    /\ strategy \in Scripts /\ mode = "arbitrary"
    /\ total = 0 /\ limit = 1 /\ cursor = 0 /\ total_fetched = 0
    /\ pc = "import"
    /\ page = <<>> /\ resp = [is_list |-> FALSE, total |-> 0]
    /\ yielded = <<>> /\ received = <<>> /\ requested = <<>> /\ reported = <<>>
    /\ failed = "None" /\ raised = "None" /\ exit = "running"

\* What a step of a script leaves alone before its first request.
ScriptFrame ==
    UNCHANGED <<clientVars, envVars, logVars, detailVars, auxVars, strategy, mode,
                total, limit, cursor, total_fetched, page, resp, yielded, received,
                requested, reported>>

\* The import statements at the top of the script.
ScriptImport ==
    /\ strategy \in Scripts /\ pc = "import"
    /\ IF ImportsModuleConfig(strategy)
       THEN Finish("ImportError", "uncaught")
       ELSE /\ pc' = IF CallsValidate(strategy) THEN "validate" ELSE "fetch"
            /\ UNCHANGED <<raised, exit>>
    /\ UNCHANGED failed
    /\ ScriptFrame

\* config.validate() in main: its ValueError reaches no handler that ends the
\* script normally ("except Exception: ... raise", or no try at all).
ScriptValidate ==
    /\ strategy \in Scripts /\ pc = "validate"
    /\ IF Validate(config) # "True"
       THEN /\ Finish("ValueError", "uncaught")
            /\ failed' = Validate(config)
       ELSE /\ pc' = "fetch"
            /\ UNCHANGED <<raised, exit, failed>>
    /\ ScriptFrame

\* The first request of the extraction.  fetch_api_clients and
\* fetch_identity_sources evaluate config.<name>_url for the argument of
\* _make_request: AttributeError, caught in main, sys.exit(1).  The others
\* take the token step and issue the GET.
ScriptFirstRequest ==
    /\ strategy \in Scripts /\ pc = "fetch"
    /\ IF ~HasUrlProperty(strategy)
       THEN /\ Finish("AttributeError", "1")
            /\ UNCHANGED <<clientVars, envVars, requested>>
       ELSE \E g \in GrantsAsked, r \in GetOutcomes :
              LET m == MakeRequest(access_token, token_expires_at, now, g, token_posts, r) IN
              /\ access_token' = m.auth.access_token
              /\ token_expires_at' = m.auth.token_expires_at
              /\ token_posts' = token_posts + m.auth.posts
              /\ requested' = IF m.gets = 1 THEN Append(requested, cursor) ELSE requested
              /\ Finish(m.raised, "after the first request")
              /\ UNCHANGED <<now, ticks>>
    /\ UNCHANGED <<logVars, detailVars, auxVars, strategy, mode, total, limit, cursor,
                   total_fetched, page, resp, yielded, received, reported, failed>>

NextConfig == ScriptImport \/ ScriptValidate \/ ScriptFirstRequest

SpecConfig == InitConfig /\ [][NextConfig]_vars

\* A required credential is not set.
CredentialMissing ==
    config.TENANT_URL = "" \/ config.CLIENT_ID = "" \/ config.CLIENT_SECRET = ""

\* C22: when TENANT_URL, CLIENT_ID or CLIENT_SECRET is missing, validate raises
\* naming the first missing variable in that order, and returns True
\* otherwise; and with a credential missing every extraction fails before any
\* network call: no token request is sent and no GET is issued.
C22_FailsBeforeNetwork ==
    strategy \in Scripts =>
        /\ raised = "ValueError" =>
             /\ CredentialMissing
             /\ failed = (IF config.TENANT_URL = "" THEN "IBM_VERIFY_TENANT_URL is required"
                          ELSE IF config.CLIENT_ID = "" THEN "IBM_VERIFY_CLIENT_ID is required"
                          ELSE "IBM_VERIFY_CLIENT_SECRET is required")
        /\ CredentialMissing =>
             /\ token_posts = 0 /\ requested = <<>>
             /\ pc = "done" => exit \in {"1", "uncaught"}
             /\ (pc = "done" /\ CallsValidate(strategy) /\ ~ImportsModuleConfig(strategy))
                  => raised = "ValueError"
        /\ (~CredentialMissing /\ pc = "done" /\ CallsValidate(strategy)
                /\ ~ImportsModuleConfig(strategy))
             => token_posts = 1

\* Tenant URL set, client id and secret missing: validate named the client id
\* and the script ended without a request.
C22_Witness ==
    /\ strategy = "fetch_applications" /\ pc = "done"
    /\ config.TENANT_URL = "set" /\ config.CLIENT_ID = "" /\ config.CLIENT_SECRET = ""
    /\ raised = "ValueError" /\ failed = "IBM_VERIFY_CLIENT_ID is required"
    /\ token_posts = 0 /\ requested = <<>>

-----------------------------------------------------------------------------
(* MFA configurations, sanitized: SpecMfa *)

MaxMethods == 2             \* authenticators in one page, at most

\* safe_fields in sanitize_mfa_data
safe_fields == {"id", "type", "method", "name", "enabled", "status", "protocol"}

\* A JSON value that is not an object.
NotADict == [is_dict |-> FALSE, map |-> [k \in {} |-> ""]]

\* The JSON objects with keys among `keys` and values among `values`.
Dicts(keys, values) ==
    { [is_dict |-> TRUE, map |-> f] : f \in UNION { [d -> values] : d \in SUBSET keys } }

\* Items of the `authenticators` array: with an id, an empty id or none, with
\* or without a field outside the whitelist; or no object at all.
MfaMethods ==
    { m \in Dicts({"id", "secret"}, {"", "v"}) :
        "secret" \in DOMAIN m.map => m.map["secret"] = "v" } \cup {NotADict}

\* Bodies of the per-method detail response.
MfaDetails == Dicts({"type", "secret"}, {"v"}) \cup {NotADict}

\* The `authenticators` array of one page.
MfaPages == UNION { [1..n -> MfaMethods] : n \in 0..MaxMethods }

\* The totals the server reports, around config.DEFAULT_PAGE_SIZE.
MfaTotals == {0, 5, DEFAULT_PAGE_SIZE + 50}

\* Mutant: the mapping is stored as it came.
sanitize_mfa_data_Keep(data) == data.map

\* sanitize_mfa_data: {} for a value that is no dict, else the whitelisted
\* keys that are present, with their values.
sanitize_mfa_data(data) ==
    IF ~data.is_dict THEN [k \in {} |-> ""]
    ELSE [k \in safe_fields \cap DOMAIN data.map |-> data.map[k]]

InitMfa ==
    /\ InitClient
    /\ NoCalls
    /\ NoFanOut
    /\ NoAux
    /\ strategy = "mfa_configurations" /\ mode = "arbitrary"
    /\ total \in MfaTotals /\ limit = DEFAULT_PAGE_SIZE
    /\ cursor = 0 /\ total_fetched = 0
    /\ pc = "fetch"
    /\ page = <<>> /\ resp = [total |-> 0, source |-> NotADict, fallback |-> FALSE]
    /\ yielded = <<>> /\ received = <<>> /\ requested = <<>> /\ reported = <<>>
    /\ failed = "None" /\ raised = "None" /\ exit = "running"

\* "method_id = method.get('id')" and "if method_id:"
HasMethodId(method) == "id" \in DOMAIN method.map /\ method.map["id"] # ""

\* fetch_mfa_configurations: one iteration of "while True" up to the loop over
\* the page.  Any exception of the page request ends the traversal ("break").
MfaFetchPage ==
    /\ strategy = "mfa_configurations" /\ pc = "fetch"
    /\ \E g \in GrantsAsked, r \in GetOutcomes, methods \in MfaPages, tot \in {0, total} :
         LET m == MakeRequest(access_token, token_expires_at, now, g, token_posts, r) IN
         /\ PageRequest(m)
         /\ IF m.raised # "None"
            THEN /\ failed' = IF m.gets = 0 THEN "auth" ELSE "get"
                 /\ Finish("None", MainExit("None"))
                 /\ UNCHANGED <<page, resp>>
            ELSE IF methods = <<>>
            THEN /\ Finish("None", MainExit("None"))
                 /\ UNCHANGED <<page, resp, failed>>
            ELSE /\ page' = methods
                 /\ resp' = [resp EXCEPT !.total = tot]
                 /\ pc' = "yield"
                 /\ UNCHANGED <<raised, exit, failed>>
    /\ UNCHANGED <<cursor, total_fetched, received, reported>>
    /\ UNCHANGED auxVars

\* After the last method of a page: "total = data.get('total', 0)",
\* "if total == 0 or offset + limit >= total: break", "offset += limit".
MfaAfterMethod ==
    IF Tail(page) # <<>>
    THEN UNCHANGED <<pc, cursor, raised, exit>>
    ELSE IF DynStop(cursor, limit, resp.total)
    THEN Finish("None", MainExit("None")) /\ UNCHANGED cursor
    ELSE pc' = "fetch" /\ cursor' = cursor + limit /\ UNCHANGED <<raised, exit>>

\* One turn of "for method in mfa_methods", up to its yield.  An item that is
\* no object has no get: AttributeError, caught by the outer handler, which
\* ends the traversal.  An item without id is passed over.  Otherwise the
\* detail is requested and sanitized; when that request fails in any way
\* the list item is sanitized instead.
MfaMethod ==
    /\ strategy = "mfa_configurations" /\ pc = "yield"
    /\ LET method == Head(page) IN
       IF ~method.is_dict
       THEN /\ failed' = "body"
            /\ Finish("None", MainExit("None"))
            /\ UNCHANGED <<clientVars, envVars, page, resp, yielded, total_fetched, cursor>>
       ELSE IF ~HasMethodId(method)
       THEN /\ page' = Tail(page)
            /\ MfaAfterMethod
            /\ UNCHANGED <<clientVars, envVars, resp, yielded, total_fetched, failed>>
       ELSE \E g \in GrantsAsked, r \in GetOutcomes, detail_data \in MfaDetails :
              LET m == MakeRequest(access_token, token_expires_at, now, g, token_posts, r)
                  source == IF m.raised = "None" THEN detail_data ELSE method
              IN
              /\ access_token' = m.auth.access_token
              /\ token_expires_at' = m.auth.token_expires_at
              /\ token_posts' = token_posts + m.auth.posts
              /\ yielded' = Append(yielded, [method_id |-> method.map["id"],
                                             data |-> sanitize_mfa_data(source)])
              /\ resp' = [resp EXCEPT !.source = source, !.fallback = m.raised # "None"]
              /\ total_fetched' = total_fetched + 1
              /\ page' = Tail(page)
              /\ MfaAfterMethod
              /\ UNCHANGED <<now, ticks, failed>>
    /\ UNCHANGED <<logVars, detailVars, auxVars>>
    /\ UNCHANGED <<strategy, mode, total, limit, received, requested, reported>>

NextMfa == MfaFetchPage \/ MfaMethod

SpecMfa == InitMfa /\ [][NextMfa]_vars

\* C23: every record yielded by fetch_mfa_configurations has a data mapping
\* whose keys are among id, type, method, name, enabled, status, protocol,
\* whether it was made from the detail response or from the list item; the
\* mapping is the source restricted to those keys.
C23_OnlySafeFields ==
    strategy = "mfa_configurations" =>
        /\ \A i \in DOMAIN yielded :
             DOMAIN yielded[i].data \subseteq
                 {"id", "type", "method", "name", "enabled", "status", "protocol"}
        /\ yielded # <<>> =>
             LET data == yielded[Len(yielded)].data IN
             \A k \in DOMAIN data : k \in DOMAIN resp.source.map /\ data[k] = resp.source.map[k]

\* A record made from a detail response and then one made from a list item,
\* the latter's source carrying a field outside the whitelist.
C23_Witness ==
    /\ strategy = "mfa_configurations"
    /\ Len(yielded) = 2
    /\ DOMAIN yielded[1].data = {"type"}
    /\ DOMAIN yielded[2].data = {"id"}
    /\ resp.fallback /\ DOMAIN resp.source.map = {"id", "secret"}

-----------------------------------------------------------------------------
(* Traversals while the clock runs: SpecPagesClock *)

\* Time passes between two page requests of a traversal (the consumer works,
\* the network is slow): time.time() is later at the next request.
PageTick ==
    /\ strategy \in Strategies /\ pc = "fetch"
    /\ ticks < MaxTicks
    /\ \E d \in TickSteps : now' = now + d
    /\ ticks' = ticks + 1
    /\ UNCHANGED <<clientVars, token_posts, logVars, pageVars, detailVars, auxVars>>

InitPagesClock == InitPages /\ mode = "honest"

NextPagesClock == NextPages \/ PageTick

SpecPagesClock == InitPagesClock /\ [][NextPagesClock]_vars

\* A page GET is issued in this step.
GetIssued == Len(requested') = Len(requested) + 1

\* C24: every authenticated GET of a traversal carries a token that is not
\* stale when the request is issued, on every endpoint, dynamic groups
\* included, also when the held token became stale between two page
\* requests.  Checked in this form: a GET issued while the token held so far
\* is stale carries another, newly granted token.
C24_FreshTokenOnEveryGet ==
    [][(GetIssued /\ Stale(access_token, token_expires_at, now))
          => access_token' # access_token]_vars

-----------------------------------------------------------------------------
(* The transport of each page request: SpecTransport *)

\* The callers that issue page requests (SCIM capabilities: its one request).
Callers == {"applications", "groups", "dynamic_groups", "scim_capabilities"}

\* _make_request and _make_scim_request send through self.session, which
\* carries the Retry adapter; fetch_dynamic_groups and
\* fetch_scim_capabilities call requests.get.
UsesSession(caller) == caller \in {"applications", "groups"}

InitTransport ==
    /\ InitClient
    /\ NoCalls
    /\ NoFanOut
    /\ NoPool
    /\ ValidConfig
    /\ strategy \in Callers /\ mode = "arbitrary"
    /\ total = 0 /\ limit = 1 /\ cursor = 0 /\ total_fetched = 0
    /\ pc = "fetch"
    /\ page = <<>> /\ resp = [is_list |-> FALSE, total |-> 0]
    /\ yielded = <<>> /\ received = <<>> /\ requested = <<>> /\ reported = <<>>
    /\ failed = "None" /\ raised = "None" /\ exit = "running"
    /\ sess = [method |-> "GET", pc |-> "sending", budget |-> MAX_RETRIES,
               total |-> IF UsesSession(strategy) THEN MAX_RETRIES ELSE 0,
               seen |-> <<>>, raised |-> "None"]

\* A GET through the client's session.
SessionGet ==
    /\ UsesSession(strategy)
    /\ SessionAttempt

\* requests.get: a session of its own for the one call, whose adapter has
\* max_retries = 0 and no status_forcelist; the response goes to the caller,
\* whose raise_for_status raises HTTPError on 4xx and 5xx.
RequestsGet ==
    /\ ~UsesSession(strategy) /\ strategy \in Callers
    /\ sess.pc = "sending"
    /\ \E r \in Responses :
         sess' = [sess EXCEPT
                    !.seen = Append(@, r),
                    !.pc = "done",
                    !.raised = IF StatusOk(r.status) THEN "None" ELSE "RequestException"]
    /\ UNCHANGED <<clientVars, envVars, logVars, pageVars, detailVars, pool, config>>

NextTransport == SessionGet \/ RequestsGet

SpecTransport == InitTransport /\ [][NextTransport]_vars

\* C25: every page request of every pagination strategy goes through the
\* resilient transport: a 429/5xx response to a page request is retried up
\* to the configured budget before the page counts as failed, on every
\* endpoint, dynamic groups and SCIM capabilities included.
C25_EveryPageRequestRetried ==
    (/\ strategy \in Callers
     /\ sess.pc = "done" /\ sess.raised # "None"
     /\ \A i \in DOMAIN sess.seen : sess.seen[i].status \in {429, 500, 502, 503, 504})
        => Len(sess.seen) = 1 + MAX_RETRIES

-----------------------------------------------------------------------------
(* Laziness of the traversals (SpecPages) *)

\* C26: pagination is lazy with one page in flight at a time: the request for
\* page k+1 is issued only after every item of page k has been handed to the
\* consumer, and no page is requested that the consumer's progress has not
\* reached (against a server that pages a fixed collection, the cursor of a
\* request is the number of items handed over so far).
C26_OnePageInFlight ==
    [][GetIssued =>
         /\ page = <<>>
         /\ yielded = received
         /\ mode = "honest" =>
              cursor = total_fetched + (IF strategy = "groups" THEN 1 ELSE 0)]_vars

\* The second page was requested once both items of the first had been
\* yielded, and its items are being handed over.
C26_Witness ==
    /\ strategy = "applications" /\ mode = "honest" /\ limit = 2
    /\ requested = <<0, 2>>
    /\ yielded = <<1, 2, 3>> /\ page = <<4>>

-----------------------------------------------------------------------------
(* The page/limit traversals: SpecPaged *)

PagedStrategies == {"api_clients", "identity_sources"}

\* "limit = response_data.get('limit', 200)" in fetch_api_clients,
\* "... get('limit', 100)" in fetch_identity_sources.
DefaultLimit(s) == IF s = "api_clients" THEN 200 ELSE 100

\* Servers: the number of items held and the page size used for a request
\* that names none.
PagedServers ==
    { <<t, d>> : t \in 0..MaxTotal, d \in 1..MaxLimit } \cup { <<5, 200>>, <<5, 100>> }

\* The slice a server holding tot items returns for page p of size lim.
PagedSlice(tot, lim, p) == PageItems((p - 1) * lim, Min(lim, Max(0, tot - (p - 1) * lim)))

\* The traversal is a function of client and config.  resp holds what it was
\* given: the server's default page size, whether responses echo `limit`,
\* and whether the config object has the URL property the function reads
\* (the Config of config.py has neither api_clients_url nor
\* identity_sources_url).
InitPaged ==
    /\ InitClient
    /\ NoCalls
    /\ NoFanOut
    /\ NoAux
    /\ strategy \in PagedStrategies /\ mode = "honest"
    /\ \E sv \in PagedServers, e \in BOOLEAN, u \in BOOLEAN :
         /\ total = sv[1]
         /\ resp = [default |-> sv[2], echo_limit |-> e, has_url |-> u]
    /\ limit = 0 /\ cursor = 1 /\ total_fetched = 0
    /\ pc = "first"
    /\ page = <<>>
    /\ yielded = <<>> /\ received = <<>> /\ requested = <<>> /\ reported = <<>>
    /\ failed = "None" /\ raised = "None" /\ exit = "running"

\* How main ends: "except Exception: ... sys.exit(1)".
PagedMainExit(exc) == IF exc = "None" THEN "0" ELSE "1"

\* The initial request, sent without params.  config.api_clients_url is
\* evaluated for the call: on Config it raises AttributeError, which the
\* function logs and re-raises before any request.  Otherwise the page comes
\* at the server's default size; limit is the echoed one or the default of
\* the code, page is 1.
PagedFirst ==
    /\ strategy \in PagedStrategies /\ pc = "first"
    /\ IF ~resp.has_url
       THEN /\ Finish("AttributeError", PagedMainExit("AttributeError"))
            /\ UNCHANGED <<clientVars, envVars, requested, failed, page, received, limit>>
       ELSE \E g \in GrantsAsked, r \in GetOutcomes :
              LET m == MakeRequest(access_token, token_expires_at, now, g, token_posts, r)
                  clients == PagedSlice(total, resp.default, 1)
              IN
              /\ access_token' = m.auth.access_token
              /\ token_expires_at' = m.auth.token_expires_at
              /\ token_posts' = token_posts + m.auth.posts
              /\ requested' = IF m.gets = 1 THEN Append(requested, cursor) ELSE requested
              /\ UNCHANGED <<now, ticks>>
              /\ IF m.raised # "None"
                 THEN /\ failed' = IF m.gets = 0 THEN "auth" ELSE "get"
                      /\ Finish(m.raised, PagedMainExit(m.raised))
                      /\ UNCHANGED <<page, received, limit>>
                 ELSE /\ failed' = failed
                      /\ page' = clients
                      /\ received' = received \o clients
                      /\ limit' = IF resp.echo_limit THEN resp.default
                                  ELSE DefaultLimit(strategy)
                      /\ IF clients # <<>>
                         THEN pc' = "yield" /\ UNCHANGED <<raised, exit>>
                         ELSE IF 0 < total
                         THEN pc' = "fetch" /\ UNCHANGED <<raised, exit>>
                         ELSE Finish("None", PagedMainExit("None"))
    /\ UNCHANGED <<logVars, detailVars, auxVars>>
    /\ UNCHANGED <<strategy, mode, total, cursor, total_fetched, resp, yielded, reported>>

\* One item is yielded; after the last one of a page "while total_fetched <
\* total" decides whether another page is asked for.
PagedYield ==
    /\ strategy \in PagedStrategies /\ pc = "yield"
    /\ yielded' = Append(yielded, Head(page))
    /\ total_fetched' = total_fetched + 1
    /\ page' = Tail(page)
    /\ IF Tail(page) # <<>>
       THEN UNCHANGED <<pc, raised, exit>>
       ELSE IF total_fetched + 1 < total
       THEN pc' = "fetch" /\ UNCHANGED <<raised, exit>>
       ELSE Finish("None", PagedMainExit("None"))
    /\ UNCHANGED <<clientVars, envVars, logVars, detailVars, auxVars>>
    /\ UNCHANGED <<strategy, mode, total, limit, cursor, resp, received, requested,
                   reported, failed>>

\* "page += 1; params = {'limit': limit, 'page': page}" and the request; an
\* empty page ends the loop, an exception is re-raised.
PagedFetch ==
    /\ strategy \in PagedStrategies /\ pc = "fetch"
    /\ cursor' = cursor + 1
    /\ \E g \in GrantsAsked, r \in GetOutcomes :
         LET m == MakeRequest(access_token, token_expires_at, now, g, token_posts, r)
             clients == PagedSlice(total, limit, cursor + 1)
         IN
         /\ access_token' = m.auth.access_token
         /\ token_expires_at' = m.auth.token_expires_at
         /\ token_posts' = token_posts + m.auth.posts
         /\ requested' = IF m.gets = 1 THEN Append(requested, cursor + 1) ELSE requested
         /\ IF m.raised # "None"
            THEN /\ failed' = IF m.gets = 0 THEN "auth" ELSE "get"
                 /\ Finish(m.raised, PagedMainExit(m.raised))
                 /\ UNCHANGED <<page, received>>
            ELSE /\ failed' = failed
                 /\ received' = received \o clients
                 /\ page' = clients
                 /\ IF clients # <<>>
                    THEN pc' = "yield" /\ UNCHANGED <<raised, exit>>
                    ELSE Finish("None", PagedMainExit("None"))
    /\ UNCHANGED <<now, ticks, logVars, detailVars, auxVars>>
    /\ UNCHANGED <<strategy, mode, total, limit, total_fetched, resp, yielded, reported>>

NextPaged == PagedFirst \/ PagedYield \/ PagedFetch

SpecPaged == InitPaged /\ [][NextPaged]_vars

\* C27: for a server that holds `total` items and serves the first request
\* at its own default page size, the page/limit traversal terminates,
\* requests pages 2, 3, ... in order, requests no page once the number of
\* records fetched has reached total, and, when no request fails, yields
\* every item exactly once, also when the response does not echo `limit`.
C27_PagedTraversal ==
    strategy \in PagedStrategies =>
        /\ \A i \in DOMAIN requested : requested[i] = i
        /\ Len(requested) <= total + 1
        /\ pc = "fetch" => total_fetched < total
        /\ (pc = "done" /\ failed = "None") => yielded = PageItems(0, total)

-----------------------------------------------------------------------------
(* Details of the dynamic groups, one after the other: SpecGroupDetails *)

MaxGroups == 3              \* groups loaded from dynamic_groups.jsonl, at most

\* group.get('group_id') of a loaded record without the key.
NoGroupId == 0

\* The lists load_dynamic_groups returns: record i carries group_id i or none.
GroupLists ==
    UNION { { [i \in 1..n |-> [group_id |-> IF i \in withId THEN i ELSE NoGroupId]] :
                  withId \in SUBSET (1..n) } : n \in 1..MaxGroups }

\* Statuses of the detail GET.
GroupDetailStatuses == {200, 401, 404, 500}

\* Config.__init__ sets TENANT_URL, CLIENT_ID, CLIENT_SECRET, API_VERSION,
\* REQUEST_TIMEOUT, MAX_RETRIES, RETRY_BACKOFF, DEFAULT_PAGE_SIZE and
\* OUTPUT_DIR; there is no RATE_LIMIT_DELAY.
ConfigAttributes ==
    {"TENANT_URL", "CLIENT_ID", "CLIENT_SECRET", "API_VERSION", "REQUEST_TIMEOUT",
     "MAX_RETRIES", "RETRY_BACKOFF", "DEFAULT_PAGE_SIZE", "OUTPUT_DIR"}

\* How fetch_dynamic_groups_detail.main ends: PermissionError is caught
\* ("return 1"), any other exception of the generator is not.
GroupsMainExit(exc) ==
    IF exc = "None" THEN "0" ELSE IF exc = "PermissionError" THEN "1" ELSE "uncaught"

InitGroupDetails ==
    /\ InitClient
    /\ NoCalls
    /\ NoFanOut
    /\ NoAux
    /\ strategy = "dynamic_groups_detail" /\ mode = "arbitrary"
    /\ page \in GroupLists
    /\ total = Len(page) /\ limit = 1 /\ cursor = 0 /\ total_fetched = 0
    /\ pc = "fetch"
    /\ resp = [is_list |-> FALSE, total |-> 0]
    /\ yielded = <<>> /\ received = <<>> /\ requested = <<>> /\ reported = <<>>
    /\ failed = "None" /\ raised = "None" /\ exit = "running"

\* The loop goes to the next group, or ends after the last one.
NextGroup ==
    IF Tail(page) = <<>>
    THEN Finish("None", GroupsMainExit("None"))
    ELSE pc' = "fetch" /\ UNCHANGED <<raised, exit>>

\* One turn of "for index, group in enumerate(groups, 1)" up to the yield or
\* to the end of the try body.  A group without id is passed over.
\* fetch_dynamic_group_detail takes the token step and issues the GET with
\* requests.get: 401 raises PermissionError, which is re-raised; 404 returns
\* None; any RequestException (the token step's included) is logged and the
\* loop continues; any other exception leaves the generator.
GroupVisit ==
    /\ strategy = "dynamic_groups_detail" /\ pc = "fetch"
    /\ cursor' = cursor + 1
    /\ LET group == Head(page) IN
       IF group.group_id = NoGroupId
       THEN /\ page' = Tail(page)
            /\ NextGroup
            /\ UNCHANGED <<clientVars, envVars, yielded, received, requested, failed,
                           total_fetched>>
       ELSE \E g \in GrantsAsked, status \in GroupDetailStatuses :
              LET a == GetAccessToken(access_token, token_expires_at, now, g, token_posts)
                  exc == IF a.raised # "None" THEN a.raised ELSE DynStatusError(status)
              IN
              /\ access_token' = a.access_token
              /\ token_expires_at' = a.token_expires_at
              /\ token_posts' = token_posts + a.posts
              /\ UNCHANGED <<now, ticks>>
              /\ requested' = IF a.raised = "None"
                              THEN Append(requested, group.group_id) ELSE requested
              /\ failed' = IF a.raised # "None" THEN "auth" ELSE failed
              /\ IF exc = "RequestException"
                 THEN /\ page' = Tail(page)
                      /\ NextGroup
                      /\ UNCHANGED <<yielded, received, total_fetched>>
                 ELSE IF exc # "None"
                 THEN /\ Finish(exc, GroupsMainExit(exc))
                      /\ UNCHANGED <<page, yielded, received, total_fetched>>
                 ELSE /\ pc' = "sleep"
                      /\ UNCHANGED <<page, raised, exit>>
                      /\ IF status = 404
                         THEN UNCHANGED <<yielded, received, total_fetched>>
                         ELSE /\ yielded' = Append(yielded, group.group_id)
                              /\ received' = Append(received, group.group_id)
                              /\ total_fetched' = total_fetched + 1
    /\ UNCHANGED <<logVars, detailVars, auxVars>>
    /\ UNCHANGED <<strategy, mode, total, limit, resp, reported>>

\* "if index < total: time.sleep(config.RATE_LIMIT_DELAY)": reading an
\* attribute Config does not have raises AttributeError, which neither
\* except clause of the loop matches.
GroupSleep ==
    /\ strategy = "dynamic_groups_detail" /\ pc = "sleep"
    /\ IF cursor < total /\ "RATE_LIMIT_DELAY" \notin ConfigAttributes
       THEN /\ Finish("AttributeError", GroupsMainExit("AttributeError"))
            /\ UNCHANGED page
       ELSE /\ page' = Tail(page)
            /\ NextGroup
    /\ UNCHANGED <<clientVars, envVars, logVars, detailVars, auxVars>>
    /\ UNCHANGED <<strategy, mode, total, limit, cursor, total_fetched, resp, yielded,
                   received, requested, reported, failed>>

NextGroupDetails == GroupVisit \/ GroupSleep

SpecGroupDetails == InitGroupDetails /\ [][NextGroupDetails]_vars

-----------------------------------------------------------------------------
(* Frame of a failed refresh (SpecToken) *)

\* C29: a failed token refresh (grant rejected with a non-2xx status, or a
\* 2xx body without access_token) leaves the token held and the stored
\* expiry as they were, so the token is still stale and the next call
\* requests a grant again from the same state.
C29_FailedRefreshKeepsToken ==
    [][(ncalls' = ncalls + 1 /\ GrantFailed(calls'[Len(calls')]))
          => /\ access_token' = access_token
             /\ token_expires_at' = token_expires_at
             /\ Stale(access_token', token_expires_at', now')]_vars

\* A call stored a token; the next call found it stale, its grant failed, and
\* the client still holds that token with its expiry.
C29_Witness ==
    /\ Len(calls) = 2
    /\ Refreshed(calls[1]) /\ GrantFailed(calls[2])
    /\ access_token # NoToken
    /\ access_token = calls[1].ret /\ token_expires_at = calls[1].expires_at

-----------------------------------------------------------------------------
(* The output file of the fan-out (SpecDetails) *)

\* C30: during the application-details fan-out only the collecting thread
\* writes to the output file: a line is added only by the step in which main
\* consumes a finished future, for that future's identifier; at every moment
\* the success count equals the number of lines written and no identifier
\* has two lines; and under every interleaving of the workers the file ends
\* with one line per identifier whose detail fetch succeeded and none for a
\* failed one.
C30_SingleWriter ==
    [][/\ written' # written =>
            \E i \in 1..app_ids :
               /\ task[i].phase = "finished" /\ task'[i].phase = "consumed"
               /\ task[i].fate = "ok"
               /\ written' = Append(written, i)
               /\ consumed' = Append(consumed, i)
       /\ successful' = Len(written')
       /\ \A k, l \in DOMAIN written' : written'[k] = written'[l] => k = l
       /\ (main_pc' = "done" /\ \E i \in 1..app_ids : task'[i].phase # "queued")
            => { written'[k] : k \in DOMAIN written' }
                  = { i \in 1..app_ids : task'[i].fate = "ok" }]_vars

\* Two identifiers: the fetch of the first failed and was consumed first, the
\* second succeeded; the file holds the one line of the second, one success
\* is counted.
C30_Witness ==
    /\ main_pc = "done" /\ app_ids = 2
    /\ consumed = <<1, 2>>
    /\ task[1].fate # "ok" /\ task[1].result = "None"
    /\ task[2].fate = "ok"
    /\ written = <<2>> /\ successful = 1
=============================================================================
